---- MODULE Spec2Model ----
(***************************************************************************)
(* RubeEn: password-protected file encryption in the browser.              *)
(*                                                                         *)
(* src/services/cryptoService.ts holds three variants of the crypto        *)
(* service (key-wrap with an obfuscated key file carrying metadata, lines  *)
(* 1-210; key-wrap with a plain JSON key file, lines 212-381; and          *)
(* password-direct, lines 383-472).  The model keeps one operator per      *)
(* service function; an encrypting call is one action for its start and    *)
(* one for each await it resumes from, so that calls interleave.  A        *)
(* decrypting or importing call is one action, taken where the call        *)
(* settles: from its start to that point it reads its arguments only and   *)
(* changes nothing the model keeps.                                        *)
(*                                                                         *)
(* App (src/services/cryptoService.ts lines 474-519) shows one component   *)
(* at a time.  A click on a tab takes the component on screen away with    *)
(* its state; the handler calls it had running go on without it, and the   *)
(* component mounted next starts from its initial state.                   *)
(*                                                                         *)
(* Platform primitives (Web Crypto, btoa/atob, JSON, TextEncoder) are not  *)
(* code of the repository.  They are modelled by what they do:             *)
(*   - bytes are integers 0..255, strings are sequences of UTF-16 code     *)
(*     units;                                                              *)
(*   - PBKDF2 is an injective function of (HMAC-SHA-256 key of the UTF-8   *)
(*     password bytes, salt); the HMAC key is the bytes, hashed with       *)
(*     SHA-256 when longer than 64, up to trailing zero bytes;             *)
(*   - JSON numbers are IEEE doubles, kept as exact decimal digits;        *)
(*   - AES-GCM is an ideal authenticated cipher: decrypt succeeds exactly  *)
(*     on a (key, iv, ciphertext-with-tag) triple that encrypt produced;   *)
(*   - getRandomValues / generateKey never return the same value twice.    *)
(***************************************************************************)
EXTENDS Integers, Sequences, FiniteSets, TLC

VARIABLES
    rng,        \* draws made so far from the platform's random source
    sealed,     \* every (key, iv, ciphertext-with-tag) AES-GCM encrypt produced
    encLog,     \* one entry per subtle.encrypt call: [key, iv, draw, by]
    directs,    \* password-direct envelopes produced so far, with their inputs
    fileKeys,   \* file keys returned by generateFileKey
    files,      \* key-wrap file envelopes produced so far, with their inputs
    keyFiles,   \* key envelopes exported so far, with their inputs
    pending,    \* the calls in flight that a caller other than the components
                \* made: its inputs, where it waits, what it drew
    last,       \* the call of such a caller that settled most recently: its
                \* inputs, result and platform calls
    dec,        \* the Decryptor component's state
    enc,        \* the key-wrap Encryptor component's state
    encDirect,  \* the password-direct Encryptor component's state
    downloads,  \* the downloads the Encryptor triggered, in order
    mode,       \* App's mode: the tab whose component is on screen
    gone        \* the components App took off the screen while calls of their
                \* handlers were running: what those calls hold, oldest first

vars == <<rng, sealed, encLog, directs, fileKeys, files, keyFiles, pending, last,
          dec, enc, encDirect, downloads, mode, gone>>

\* The components' state, which no service call touches.
ui == <<dec, enc, encDirect, downloads, mode, gone>>

----------------------------------------------------------------------------
(* Bounds of the model *)

\* Draws from the random source in one run.
MaxDraws == 4

\* Encrypting service calls in flight at once.
MaxPending == 2

\* Components off the screen whose handler calls are still running.
MaxGone == 1

----------------------------------------------------------------------------
(* Program constants *)

SALT_LENGTH == 16
IV_LENGTH == 12
KDF_SALT_LENGTH == 16
KEY_ENCRYPTION_IV_LENGTH == 12
FILE_ENCRYPTION_IV_LENGTH == 12
KEY_LENGTH_BITS == 256
\* AES-GCM's default tagLength is 128 bits (no call passes tagLength); in bytes:
TAG_LENGTH == 128 \div 8

----------------------------------------------------------------------------
(* Byte sequences *)

Min(a, b) == IF a < b THEN a ELSE b

\* The sum of s[lo..hi] modulo 2^16, by halves.
RECURSIVE SumRange(_, _, _)
SumRange(s, lo, hi) ==
    IF lo > hi THEN 0
    ELSE IF lo = hi THEN s[lo] % 65536
    ELSE LET mid == (lo + hi) \div 2
         IN  (SumRange(s, lo, mid) + SumRange(s, mid + 1, hi)) % 65536

SumSeq(s) == SumRange(s, 1, Len(s))

\* The first position from pos on whose element is in set `stop`, or Len(s) + 1.
FirstIn(s, pos, stop) ==
    IF \E i \in pos..Len(s) : s[i] \in stop
    THEN CHOOSE i \in pos..Len(s) : s[i] \in stop /\ \A j \in pos..(i - 1) : s[j] \notin stop
    ELSE Len(s) + 1

\* The first position from pos on whose element is not in set `skip`, or Len(s) + 1.
FirstNotIn(s, pos, skip) ==
    IF \E i \in pos..Len(s) : s[i] \notin skip
    THEN CHOOSE i \in pos..Len(s) : s[i] \notin skip /\ \A j \in pos..(i - 1) : s[j] \in skip
    ELSE Len(s) + 1

\* The number of zeros s ends with
TrailingZeros(s) ==
    IF \A i \in 1..Len(s) : s[i] = 0 THEN Len(s)
    ELSE Len(s) - (CHOOSE j \in 1..Len(s) :
                       s[j] # 0 /\ \A k \in (j + 1)..Len(s) : s[k] = 0)

\* TypedArray.prototype.slice(start, end) for 0 <= start: 0-based, end exclusive,
\* both clamped to the length.
Slice(s, start, end) == SubSeq(s, Min(start, Len(s)) + 1, Min(end, Len(s)))

\* TypedArray.prototype.slice(start)
SliceFrom(s, start) == Slice(s, start, Len(s))

\* new Uint8Array(a.length + b.length) with a set at 0 and b set at a.length
Concat(a, b) == a \o b

----------------------------------------------------------------------------
(* Platform: random source.  It never returns the same value twice: the d-th   *)
(* draw of a run returns the value of seed d.                                 *)

\* crypto.getRandomValues(new Uint8Array(n)) when the source yields `seed`
getRandomValues(n, seed) == [i \in 1..n |-> (seed * 37 + i * 11) % 256]

----------------------------------------------------------------------------
(* Platform: TextEncoder.encode (UTF-8 of a sequence of UTF-16 code units;  *)
(* a lone surrogate is replaced by U+FFFD).                                 *)

IsHigh(c) == c >= 55296 /\ c <= 56319
IsLow(c) == c >= 56320 /\ c <= 57343

Utf8Of(cp) ==
    IF cp < 128 THEN <<cp>>
    ELSE IF cp < 2048 THEN <<192 + (cp \div 64), 128 + (cp % 64)>>
    ELSE IF cp < 65536
         THEN <<224 + (cp \div 4096), 128 + ((cp \div 64) % 64), 128 + (cp % 64)>>
    ELSE <<240 + (cp \div 262144), 128 + ((cp \div 4096) % 64),
           128 + ((cp \div 64) % 64), 128 + (cp % 64)>>

RECURSIVE TextEncode(_)
TextEncode(s) ==
    IF s = <<>> THEN <<>>
    ELSE IF IsHigh(s[1]) /\ Len(s) >= 2 /\ IsLow(s[2])
         THEN Utf8Of(65536 + (s[1] - 55296) * 1024 + (s[2] - 56320))
              \o TextEncode(Tail(Tail(s)))
    ELSE IF IsHigh(s[1]) \/ IsLow(s[1])
         THEN Utf8Of(65533) \o TextEncode(Tail(s))
    ELSE Utf8Of(s[1]) \o TextEncode(Tail(s))

----------------------------------------------------------------------------
(* Platform: keys and the authenticated cipher *)

NoKey == [kind |-> "none", id |-> <<>>]

\* SHA-256 (FIPS 180-4).  A 32-bit word is <<its high 16 bits, its low 16 bits>>.
RECURSIVE Xor16(_, _)
Xor16(a, b) ==
    IF a = 0 THEN b ELSE IF b = 0 THEN a
    ELSE 2 * Xor16(a \div 2, b \div 2) + ((a + b) % 2)

RECURSIVE And16(_, _)
And16(a, b) ==
    IF a = 0 \/ b = 0 THEN 0
    ELSE 2 * And16(a \div 2, b \div 2) + (a % 2) * (b % 2)

Xor(x, y) == <<Xor16(x[1], y[1]), Xor16(x[2], y[2])>>
And(x, y) == <<And16(x[1], y[1]), And16(x[2], y[2])>>
Not(x) == <<65535 - x[1], 65535 - x[2]>>
Add(x, y) ==
    <<(x[1] + y[1] + (x[2] + y[2]) \div 65536) % 65536, (x[2] + y[2]) % 65536>>

\* x rotated right by n < 16 bits, by n < 32 bits, and shifted right by n < 16
RotrLow(x, n) ==
    <<(x[1] \div 2^n) + (x[2] % 2^n) * 2^(16 - n),
      (x[2] \div 2^n) + (x[1] % 2^n) * 2^(16 - n)>>
Rotr(x, n) == IF n >= 16 THEN RotrLow(<<x[2], x[1]>>, n - 16) ELSE RotrLow(x, n)
Shr(x, n) == <<x[1] \div 2^n, (x[2] \div 2^n) + (x[1] % 2^n) * 2^(16 - n)>>

BigSigma0(x) == Xor(Xor(Rotr(x, 2), Rotr(x, 13)), Rotr(x, 22))
BigSigma1(x) == Xor(Xor(Rotr(x, 6), Rotr(x, 11)), Rotr(x, 25))
SmallSigma0(x) == Xor(Xor(Rotr(x, 7), Rotr(x, 18)), Shr(x, 3))
SmallSigma1(x) == Xor(Xor(Rotr(x, 17), Rotr(x, 19)), Shr(x, 10))
Ch(x, y, z) == Xor(And(x, y), And(Not(x), z))
Maj(x, y, z) == Xor(Xor(And(x, y), And(x, z)), And(y, z))

Sha256K ==
    <<<<17034, 12184>>, <<28983, 17553>>, <<46528, 64463>>, <<59829, 56229>>,
      <<14678, 49755>>, <<23025, 4593>>, <<37439, 33444>>, <<43804, 24277>>,
      <<55303, 43672>>, <<4739, 23297>>, <<9265, 34238>>, <<21772, 32195>>,
      <<29374, 23924>>, <<32990, 45566>>, <<39900, 1703>>, <<49563, 61812>>,
      <<58523, 27073>>, <<61374, 18310>>, <<4033, 40390>>, <<9228, 41420>>,
      <<11753, 11375>>, <<19060, 33962>>, <<23728, 43484>>, <<30457, 35034>>,
      <<38974, 20818>>, <<43057, 50797>>, <<45059, 10184>>, <<48985, 32711>>,
      <<50912, 3059>>, <<54695, 37191>>, <<1738, 25425>>, <<5161, 10599>>,
      <<10167, 2693>>, <<11803, 8504>>, <<19756, 28156>>, <<21304, 3347>>,
      <<25866, 29524>>, <<30314, 2747>>, <<33218, 51502>>, <<37490, 11397>>,
      <<41663, 59553>>, <<43034, 26187>>, <<49739, 35696>>, <<51052, 20899>>,
      <<53650, 59417>>, <<54937, 1572>>, <<62478, 13701>>, <<4202, 41072>>,
      <<6564, 49430>>, <<7735, 27656>>, <<10056, 30540>>, <<13488, 48309>>,
      <<14620, 3251>>, <<20184, 43594>>, <<23452, 51791>>, <<26670, 28659>>,
      <<29839, 33518>>, <<30885, 25455>>, <<33992, 30740>>, <<36039, 520>>,
      <<37054, 65530>>, <<42064, 27883>>, <<48889, 41975>>, <<50801, 30962>>>>

Sha256H0 ==
    <<<<27145, 58983>>, <<47975, 44677>>, <<15470, 62322>>, <<42319, 62778>>,
      <<20750, 21119>>, <<39685, 26764>>, <<8067, 55723>>, <<23520, 52505>>>>

\* The message padded to whole 64-byte blocks: a 1 bit, zeros, the length in bits
Sha256Padded(m) ==
    m \o <<128>> \o [i \in 1..((119 - (Len(m) % 64)) % 64) |-> 0]
      \o <<0, 0, 0, 0, (Len(m) \div 2097152) % 256, (Len(m) \div 8192) % 256,
           (Len(m) \div 32) % 256, (Len(m) * 8) % 256>>

\* The 16 words of the b-th block of m (b from 0)
BlockWords(m, b) ==
    [j \in 1..16 |-> <<m[64 * b + 4 * j - 3] * 256 + m[64 * b + 4 * j - 2],
                       m[64 * b + 4 * j - 1] * 256 + m[64 * b + 4 * j]>>]

\* The message schedule: the 64 words w grows to
RECURSIVE Schedule(_)
Schedule(w) ==
    IF Len(w) = 64 THEN w
    ELSE Schedule(Append(w, Add(Add(SmallSigma1(w[Len(w) - 1]), w[Len(w) - 6]),
                                Add(SmallSigma0(w[Len(w) - 14]), w[Len(w) - 15]))))

\* One round on the working variables s = <<a, b, c, d, e, f, g, h>>, with
\* t1 = h + Sigma1(e) + Ch(e, f, g) + K[t] + W[t] and t2 = Sigma0(a) + Maj(a, b, c)
RoundWith(s, t1, t2) ==
    <<Add(t1, t2), s[1], s[2], s[3], Add(s[4], t1), s[5], s[6], s[7]>>

Round(s, kt, wt) ==
    RoundWith(s,
              Add(Add(Add(s[8], BigSigma1(s[5])), Ch(s[5], s[6], s[7])), Add(kt, wt)),
              Add(BigSigma0(s[1]), Maj(s[1], s[2], s[3])))

RECURSIVE Rounds(_, _, _)
Rounds(s, w, t) ==
    IF t > 64 \/ Len(s) # 8 THEN s ELSE Rounds(Round(s, Sha256K[t], w[t]), w, t + 1)

\* The hash value h after the block with schedule w
CompressWith(h, r) ==
    <<Add(h[1], r[1]), Add(h[2], r[2]), Add(h[3], r[3]), Add(h[4], r[4]),
      Add(h[5], r[5]), Add(h[6], r[6]), Add(h[7], r[7]), Add(h[8], r[8])>>

Compress(h, w) == CompressWith(h, Rounds(h, w, 1))

RECURSIVE Sha256Blocks(_, _, _)
Sha256Blocks(h, m, b) ==
    IF 64 * b >= Len(m) \/ Len(h) # 8 THEN h
    ELSE Sha256Blocks(Compress(h, Schedule(BlockWords(m, b))), m, b + 1)

WordBytes(h) ==
    [i \in 1..32 |->
        IF i % 4 = 1 THEN h[(i + 3) \div 4][1] \div 256
        ELSE IF i % 4 = 2 THEN h[(i + 3) \div 4][1] % 256
        ELSE IF i % 4 = 3 THEN h[(i + 3) \div 4][2] \div 256
        ELSE h[(i + 3) \div 4][2] % 256]

Sha256(m) == WordBytes(Sha256Blocks(Sha256H0, Sha256Padded(m), 0))

\* The key as HMAC-SHA-256 uses it: its hash when it is longer than the block of
\* 64 bytes, then padded with zero bytes to 64, so that the zero bytes a key ends
\* with make no difference.  This gives the key without them.
HmacKeyOf(k) == SubSeq(k, 1, Len(k) - TrailingZeros(k))

HmacKey(key) == HmacKeyOf(IF Len(key) > 64 THEN Sha256(key) ELSE key)

Pbkdf2Of(k, salt) == [kind |-> "pbkdf2", id |-> <<Len(k)>> \o k \o salt]

\* subtle.importKey('raw', bytes, {name: 'PBKDF2'}) then subtle.deriveKey(PBKDF2,
\* salt, 100000, SHA-256 -> AES-GCM 256): PBKDF2 reads the password only as the
\* key of HMAC-SHA-256, so the derived key is determined by, and determines, that
\* HMAC key and the salt.
Pbkdf2(passwordBuffer, salt) == Pbkdf2Of(HmacKey(passwordBuffer), salt)

\* A raw AES key (generateKey, exportKey('raw'), importKey('raw')).
RawKey(bytes) == [kind |-> "raw", id |-> bytes]

KeyStream(key, iv, i) == (SumSeq(key.id) + 3 * SumSeq(iv) + 7 * i) % 256

GcmTag(key, iv, ct) ==
    [j \in 1..TAG_LENGTH |->
        (SumSeq(key.id) * j + SumSeq(iv) + SumSeq(ct) + 5 * j) % 256]

WithTag(key, iv, ct) == ct \o GcmTag(key, iv, ct)

\* subtle.encrypt({name: 'AES-GCM', iv}, key, data): ciphertext, then the tag.
GcmEncrypt(key, iv, data) ==
    WithTag(key, iv, [i \in 1..Len(data) |-> (data[i] + KeyStream(key, iv, i)) % 256])

\* What subtle.encrypt records: the triple decrypt will accept.
Sealing(key, iv, data) == <<key, iv, GcmEncrypt(key, iv, data)>>

\* subtle.decrypt({name: 'AES-GCM', iv}, key, data), given what was ever sealed:
\* the plaintext, or an OperationError.
GcmDecrypt(key, iv, data, log) ==
    IF <<key, iv, data>> \in log
    THEN [ok |-> TRUE,
          bytes |-> [i \in 1..(Len(data) - TAG_LENGTH) |->
                        (data[i] + 256 - KeyStream(key, iv, i)) % 256]]
    ELSE [ok |-> FALSE, bytes |-> <<>>]

----------------------------------------------------------------------------
(* Platform: btoa / atob *)

\* The base64 character of a 6-bit value, and back (-1: not in the alphabet).
B64Char(v) ==
    IF v < 26 THEN 65 + v
    ELSE IF v < 52 THEN 71 + v
    ELSE IF v < 62 THEN v - 4
    ELSE IF v = 62 THEN 43 ELSE 47

B64Val(c) ==
    IF c >= 65 /\ c <= 90 THEN c - 65
    ELSE IF c >= 97 /\ c <= 122 THEN c - 71
    ELSE IF c >= 48 /\ c <= 57 THEN c + 4
    ELSE IF c = 43 THEN 62
    ELSE IF c = 47 THEN 63 ELSE -1

ByteAt(b, i) == IF i <= Len(b) THEN b[i] ELSE 0

\* The j-th (0..3) character of the group that encodes b[i0+1 .. i0+3].
B64Group(b, i0, j) ==
    IF j = 0 THEN B64Char(ByteAt(b, i0 + 1) \div 4)
    ELSE IF j = 1
         THEN B64Char((ByteAt(b, i0 + 1) % 4) * 16 + (ByteAt(b, i0 + 2) \div 16))
    ELSE IF j = 2
         THEN IF i0 + 2 > Len(b) THEN 61
              ELSE B64Char((ByteAt(b, i0 + 2) % 16) * 4 + (ByteAt(b, i0 + 3) \div 64))
    ELSE IF i0 + 3 > Len(b) THEN 61 ELSE B64Char(ByteAt(b, i0 + 3) % 64)

B64Encode(b) ==
    [k \in 1..(4 * ((Len(b) + 2) \div 3)) |->
        B64Group(b, 3 * ((k - 1) \div 4), (k - 1) % 4)]

\* btoa(str): InvalidCharacterError when a code unit is above 0xFF.
btoa(str) ==
    IF \E i \in 1..Len(str) : str[i] > 255
    THEN [ok |-> FALSE, s |-> <<>>]
    ELSE [ok |-> TRUE, s |-> B64Encode(str)]

IsAsciiWs(c) == c \in {9, 10, 12, 13, 32}
NotAsciiWs(c) == ~IsAsciiWs(c)

\* The i-th byte of the base64 characters u; c is where its bits start.
B64Byte(u, c, j) ==
    IF j = 0 THEN B64Val(u[c]) * 4 + (B64Val(u[c + 1]) \div 16)
    ELSE IF j = 1 THEN (B64Val(u[c]) % 16) * 16 + (B64Val(u[c + 1]) \div 4)
    ELSE (B64Val(u[c]) % 4) * 64 + B64Val(u[c + 1])

B64Decode(u) ==
    IF Len(u) % 4 = 1 \/ \E i \in 1..Len(u) : B64Val(u[i]) = -1
    THEN [ok |-> FALSE, s |-> <<>>]
    ELSE [ok |-> TRUE,
          s |-> [i \in 1..((Len(u) * 3) \div 4) |->
                    B64Byte(u, 4 * ((i - 1) \div 3) + ((i - 1) % 3) + 1, (i - 1) % 3)]]

\* w without the one or two '=' that end a length that is a multiple of 4
Unpadded(w) ==
    IF Len(w) > 0 /\ Len(w) % 4 = 0 /\ w[Len(w)] = 61
    THEN IF w[Len(w) - 1] = 61 THEN SubSeq(w, 1, Len(w) - 2)
         ELSE SubSeq(w, 1, Len(w) - 1)
    ELSE w

\* atob(str), the forgiving-base64 decode: ASCII whitespace is dropped, one or two
\* '=' are dropped from a length that is a multiple of 4, then a length of 1 mod 4
\* or a character outside the alphabet is an InvalidCharacterError.
atob(str) == B64Decode(Unpadded(SelectSeq(str, NotAsciiWs)))

----------------------------------------------------------------------------
(* Platform: JavaScript values.  A value is [t, s, m, neg, e]: its type; its   *)
(* code units (string), truth value (boolean) or decimal digits (number); its *)
(* members (object) or elements (array).  A Number is an IEEE 754 double, held *)
(* by its exact decimal expansion: (-1)^neg * s * 10^e, with e = 0 for an      *)
(* integer, and for any other e < 0 and the last digit of s not 0.  Infinity  *)
(* has no digits.                                                             *)

JValue(t, s, m) == [t |-> t, s |-> s, m |-> m, neg |-> FALSE, e |-> 0]
JUndef == JValue("undefined", <<>>, <<>>)
JNull == JValue("null", <<>>, <<>>)
JStr(s) == JValue("string", s, <<>>)
JNumber(neg, digits, e) == [t |-> "number", s |-> digits, m |-> <<>>, neg |-> neg, e |-> e]
\* The non-negative integer with these decimal digits (below 2^53).
JNum(digits) == JNumber(FALSE, digits, 0)
JInfinity(neg) == JNumber(neg, <<>>, 0)
JBool(b) == JValue("boolean", IF b THEN <<1>> ELSE <<0>>, <<>>)
JObj(members) == JValue("object", <<>>, members)
JArr(elements) == JValue("array", <<>>, elements)
Member(k, v) == [k |-> k, v |-> v]

----------------------------------------------------------------------------
(* Decimal arithmetic on digit sequences (most significant digit first), for  *)
(* the rounding of a decimal to the nearest double and back.                  *)

Max(a, b) == IF a > b THEN a ELSE b

Zeros(n) == [i \in 1..n |-> 0]

\* d without its leading zeros, one digit at least
StripZeros(d) ==
    IF FirstNotIn(d, 1, {0}) > Len(d) THEN <<0>>
    ELSE SubSeq(d, FirstNotIn(d, 1, {0}), Len(d))

\* d without one leading zero
Trim1(d) == IF Len(d) > 1 /\ d[1] = 0 THEN Tail(d) ELSE d

Odd(d) == d[Len(d)] % 2 = 1

\* floor(d / 2)
Halve(d) ==
    Trim1([i \in 1..Len(d) |->
              (d[i] + (IF i > 1 /\ d[i - 1] % 2 = 1 THEN 10 ELSE 0)) \div 2])

\* 2 * d
Double(d) ==
    Trim1([i \in 1..(Len(d) + 1) |->
              ((IF i = 1 THEN 0 ELSE 2 * d[i - 1]) % 10)
              + (IF i <= Len(d) /\ d[i] >= 5 THEN 1 ELSE 0)])

\* 5 * d
Times5(d) == Halve(Append(d, 0))

\* floor(d / 2^n), d * 2^n and d * 5^n, by halves of n
RECURSIVE HalveN(_, _)
HalveN(d, n) ==
    IF n <= 0 \/ d = <<0>> THEN d
    ELSE IF n = 1 THEN Halve(d)
    ELSE HalveN(HalveN(d, n \div 2), n - n \div 2)

RECURSIVE DoubleN(_, _)
DoubleN(d, n) ==
    IF n <= 0 \/ d = <<0>> THEN d
    ELSE IF n = 1 THEN Double(d)
    ELSE DoubleN(DoubleN(d, n \div 2), n - n \div 2)

RECURSIVE Times5N(_, _)
Times5N(d, n) ==
    IF n <= 0 \/ d = <<0>> THEN d
    ELSE IF n = 1 THEN Times5(d)
    ELSE Times5N(Times5N(d, n \div 2), n - n \div 2)

\* The first place where a and b of one length differ
FirstDiff(a, b) ==
    CHOOSE i \in 1..Len(a) : a[i] # b[i] /\ \A j \in 1..(i - 1) : a[j] = b[j]

\* a < b, for digits without leading zeros
DigitsLess(a, b) ==
    \/ Len(a) < Len(b)
    \/ /\ Len(a) = Len(b)
       /\ a # b
       /\ a[FirstDiff(a, b)] < b[FirstDiff(a, b)]

\* d + 1, where j is the last digit of d that is not 9 (0: there is none)
IncrementAt(d, j) ==
    IF j = 0 THEN <<1>> \o Zeros(Len(d))
    ELSE [i \in 1..Len(d) |-> IF i < j THEN d[i] ELSE IF i = j THEN d[i] + 1 ELSE 0]

Increment(d) ==
    IncrementAt(d, IF \A i \in 1..Len(d) : d[i] = 9 THEN 0
                   ELSE CHOOSE j \in 1..Len(d) :
                            d[j] # 9 /\ \A k \in (j + 1)..Len(d) : d[k] = 9)

\* The decimal digits of a natural number
RECURSIVE IntDigits(_)
IntDigits(n) == IF n < 10 THEN <<n>> ELSE Append(IntDigits(n \div 10), n % 10)

\* The natural number of at most 7 digits d; 10^7 for a longer one
RECURSIVE SmallInt(_)
SmallInt(d) ==
    IF Len(d) > 7 THEN 10000000
    ELSE IF d = <<>> THEN 0
    ELSE 10 * SmallInt(SubSeq(d, 1, Len(d) - 1)) + d[Len(d)]

----------------------------------------------------------------------------
(* Platform: the Number value of a decimal (round to nearest double, ties to  *)
(* even: 53 significant bits, binary exponents -1074 .. 971).                 *)

TwoTo52 == <<4, 5, 0, 3, 5, 9, 9, 6, 2, 7, 3, 7, 0, 4, 9, 6>>
TwoTo53 == <<9, 0, 0, 7, 1, 9, 9, 2, 5, 4, 7, 4, 0, 9, 9, 2>>
TwoTo1024 == DoubleN(<<1>>, 1024)


\* The digits d * 10^e with e <= 0 stand for, as a Number record
Canonical(neg, d, e) ==
    IF \A i \in 1..Len(d) : d[i] = 0 THEN JNumber(neg, <<0>>, 0)
    ELSE JNumber(neg,
                 StripZeros(SubSeq(d, 1, Len(d) - Min(TrailingZeros(d), 0 - e))),
                 e + Min(TrailingZeros(d), 0 - e))

\* q + 1 when the dropped part is above a half, or is a half and q is odd
RoundedUp(q, half, sticky) ==
    IF half /\ (sticky \/ Odd(q)) THEN Increment(q) ELSE q

\* The integer r as a Number: Infinity from 2^1024 on
Finite(neg, r) ==
    IF DigitsLess(r, TwoTo1024) THEN JNumber(neg, r, 0) ELSE JInfinity(neg)

\* The integer x >= 2^53 (and a fraction after it when frac), of which k bits are
\* dropped; y is floor(x / 2^(k-1))
IntegerRounded(neg, x, y, k, frac) ==
    Finite(neg, DoubleN(RoundedUp(Halve(y), Odd(y),
                                  frac \/ DoubleN(y, k - 1) # x), k))

\* The number of bits to drop from x to have 53 left, where xk is floor(x / 2^k)
RECURSIVE DropFrom(_, _)
DropFrom(xk, k) ==
    IF DigitsLess(xk, TwoTo53) THEN k ELSE DropFrom(Halve(xk), k + 1)

\* A lower bound of that number, from the length of x: 3321928 is the floor of
\* 10^6 * log2(10)
DropAtLeast(x) == Max(0, ((Len(x) - 1) * 3321928) \div 1000000 - 52)

BitsToDrop(x) == DropFrom(HalveN(x, DropAtLeast(x)), DropAtLeast(x))

IntegerDropped(neg, x, k, frac) ==
    IntegerRounded(neg, x, HalveN(x, k - 1), k, frac)

\* The Number nearest to the integer x (and a fraction after it when frac)
IntegerDouble(neg, x, frac) ==
    IF DigitsLess(x, TwoTo53) THEN JNumber(neg, x, 0)
    ELSE IntegerDropped(neg, x, BitsToDrop(x), frac)

\* The integer part of y * 10^-w
IntPart(y, w) == IF Len(y) <= w THEN <<0>> ELSE SubSeq(y, 1, Len(y) - w)

\* The first digit of the fraction of y * 10^-w, and whether those after it
\* are all 0
FracTop(y, w) == IF Len(y) < w THEN 0 ELSE y[Len(y) - w + 1]
FracRestZero(y, w) == \A i \in Max(1, Len(y) - w + 2)..Len(y) : y[i] = 0

\* An upper bound of log2 of a decimal below 10^p: 3321929 is the ceiling of
\* 10^6 * log2(10)
UpperLog2(p) ==
    IF p >= 0 THEN (p * 3321929) \div 1000000 + 1
    ELSE 0 - (((0 - p) * 3321928) \div 1000000)

\* The binary scale s (at most 1074) at which d * 10^-w * 2^s has 53 bits before
\* the point, with y = d * 2^s
RECURSIVE ScaleFrom(_, _, _)
ScaleFrom(y, s, w) ==
    IF s >= 1074 \/ ~DigitsLess(IntPart(y, w), TwoTo52) THEN [s |-> s, y |-> y]
    ELSE ScaleFrom(Double(y), s + 1, w)

ScaleAtLeast(d, w) == Min(1074, Max(0, 52 - UpperLog2(Len(d) - w)))

Scaled(d, w) == ScaleFrom(DoubleN(d, ScaleAtLeast(d, w)), ScaleAtLeast(d, w), w)

\* m * 2^-s
FromBinary(neg, m, s) == Canonical(neg, Times5N(m, s), 0 - s)

FractionScaled(neg, r, w) ==
    FromBinary(neg,
               RoundedUp(IntPart(r.y, w), FracTop(r.y, w) >= 5,
                         FracTop(r.y, w) > 5 \/ ~FracRestZero(r.y, w)),
               r.s)

\* The Number nearest to d * 10^-w, which is below 2^53 (w > 0)
FractionDouble(neg, d, w) == FractionScaled(neg, Scaled(d, w), w)

\* The Number nearest to d * 10^e, for digits d without leading zeros
NearestStripped(neg, d, e) ==
    IF d = <<0>> THEN JNumber(neg, <<0>>, 0)
    ELSE IF Len(d) + e > 310 THEN JInfinity(neg)
    ELSE IF Len(d) + e < -330 THEN JNumber(neg, <<0>>, 0)
    ELSE IF e >= 0 THEN IntegerDouble(neg, d \o Zeros(e), FALSE)
    ELSE IF ~DigitsLess(IntPart(d, 0 - e), TwoTo53)
         THEN IntegerDouble(neg, IntPart(d, 0 - e),
                            \E i \in (Len(d) + e + 1)..Len(d) : d[i] # 0)
    ELSE FractionDouble(neg, d, 0 - e)

\* The Number nearest to (-1)^neg * d * 10^e
NearestDouble(neg, d, e) == NearestStripped(neg, StripZeros(d), e)

----------------------------------------------------------------------------
(* Platform: Number::toString (radix 10): the fewest digits that read back as *)
(* the same Number; of two such, the nearer; of two equally near, the even.   *)

\* Whether the digits c * 10^x read back as the Number v
ReadsBack(v, c, x) == NearestDouble(v.neg, c, x) = v

\* g: the significant digits of v; n: where its decimal point is (v = 0.g * 10^n)
\* Whether p digits are enough
Enough(v, g, n, p) ==
    \/ p >= Len(g)
    \/ ReadsBack(v, SubSeq(g, 1, p), n - p)
    \/ ReadsBack(v, Increment(SubSeq(g, 1, p)), n - p)

\* The fewest digits in lo..hi that are enough, when hi are
RECURSIVE FewestDigits(_, _, _, _, _)
FewestDigits(v, g, n, lo, hi) ==
    IF lo >= hi THEN hi
    ELSE IF Enough(v, g, n, (lo + hi) \div 2)
         THEN FewestDigits(v, g, n, lo, (lo + hi) \div 2)
    ELSE FewestDigits(v, g, n, (lo + hi) \div 2 + 1, hi)

\* Whether, of the first p digits of g and that plus one, the upper is taken
TakeUpper(v, g, n, p) ==
    IF ~ReadsBack(v, SubSeq(g, 1, p), n - p) THEN TRUE
    ELSE IF ~ReadsBack(v, Increment(SubSeq(g, 1, p)), n - p) THEN FALSE
    ELSE \/ g[p + 1] > 5
         \/ /\ g[p + 1] = 5
            /\ \/ \E i \in (p + 2)..Len(g) : g[i] # 0
               \/ g[p] % 2 = 1

\* The digits c, p of them asked for, as digits without trailing zeros and the
\* place of the decimal point
Placed(c, n, p) ==
    [d |-> SubSeq(c, 1, Len(c) - TrailingZeros(c)), n |-> n - p + Len(c)]

ShortestOf(v, g, n, p) ==
    IF p >= Len(g) THEN [d |-> g, n |-> n]
    ELSE IF TakeUpper(v, g, n, p) THEN Placed(Increment(SubSeq(g, 1, p)), n, p)
    ELSE Placed(SubSeq(g, 1, p), n, p)

ShortestFrom(v, g, n) ==
    IF v.e = 0 /\ Len(v.s) <= 15 THEN [d |-> g, n |-> n]
    ELSE ShortestOf(v, g, n, FewestDigits(v, g, n, 1, Min(17, Len(g))))

\* The shortest digits of the finite Number v # 0
ShortestDigits(v) ==
    ShortestFrom(v, SubSeq(v.s, 1, Len(v.s) - TrailingZeros(v.s)), Len(v.s) + v.e)

DigitChars(digits) == [i \in 1..Len(digits) |-> 48 + digits[i]]

\* Number::toString, steps 6 to 10, for k = Len(d) digits and point position n
NumberChars(d, n) ==
    IF Len(d) <= n /\ n <= 21 THEN DigitChars(d \o Zeros(n - Len(d)))
    ELSE IF 0 < n /\ n <= 21
         THEN DigitChars(SubSeq(d, 1, n)) \o <<46>> \o DigitChars(SubSeq(d, n + 1, Len(d)))
    ELSE IF -6 < n /\ n <= 0
         THEN <<48, 46>> \o DigitChars(Zeros(0 - n) \o d)
    ELSE DigitChars(<<d[1]>>)
         \o (IF Len(d) > 1 THEN <<46>> \o DigitChars(Tail(d)) ELSE <<>>)
         \o <<101>> \o (IF n - 1 >= 0 THEN <<43>> ELSE <<45>>)
         \o DigitChars(IntDigits(IF n - 1 >= 0 THEN n - 1 ELSE 1 - n))

ShortestChars(r) == NumberChars(r.d, r.n)

\* String(v) for a Number v
NumberToString(v) ==
    IF v.s = <<>>
    THEN (IF v.neg THEN <<45>> ELSE <<>>) \o <<73, 110, 102, 105, 110, 105, 116, 121>>
    ELSE IF v.s = <<0>> THEN <<48>>
    ELSE (IF v.neg THEN <<45>> ELSE <<>>) \o ShortestChars(ShortestDigits(v))

----------------------------------------------------------------------------
(* Platform: JSON *)

HexDigit(v) == IF v < 10 THEN 48 + v ELSE 87 + v
HexVal(c) ==
    IF c >= 48 /\ c <= 57 THEN c - 48
    ELSE IF c >= 97 /\ c <= 102 THEN c - 87
    ELSE IF c >= 65 /\ c <= 70 THEN c - 55 ELSE -1

\* \uXXXX, lower-case hex
UEscape(c) ==
    <<92, 117, HexDigit(c \div 4096), HexDigit((c \div 256) % 16),
      HexDigit((c \div 16) % 16), HexDigit(c % 16)>>

\* QuoteJSONString, one code unit of s at a time: the short escapes, \u00XX for
\* the other control characters, \uDXXX for a lone surrogate.
QuoteUnit(s, i) ==
    LET c == s[i]
    IN  IF c = 8 THEN <<92, 98>>
        ELSE IF c = 9 THEN <<92, 116>>
        ELSE IF c = 10 THEN <<92, 110>>
        ELSE IF c = 12 THEN <<92, 102>>
        ELSE IF c = 13 THEN <<92, 114>>
        ELSE IF c = 34 THEN <<92, 34>>
        ELSE IF c = 92 THEN <<92, 92>>
        ELSE IF c < 32 THEN UEscape(c)
        ELSE IF IsHigh(c) /\ ~(i < Len(s) /\ IsLow(s[i + 1])) THEN UEscape(c)
        ELSE IF IsLow(c) /\ ~(i > 1 /\ IsHigh(s[i - 1])) THEN UEscape(c)
        ELSE <<c>>

\* The quoted units of s[lo..hi], by halves.
RECURSIVE QuoteRange(_, _, _)
QuoteRange(s, lo, hi) ==
    IF lo > hi THEN <<>>
    ELSE IF lo = hi THEN QuoteUnit(s, lo)
    ELSE LET mid == (lo + hi) \div 2
         IN  QuoteRange(s, lo, mid) \o QuoteRange(s, mid + 1, hi)

QuoteJSONString(s) == <<34>> \o QuoteRange(s, 1, Len(s)) \o <<34>>

Spaces(n) == [i \in 1..n |-> 32]

\* The separator between two members or elements at nesting depth level
Separator(gap, level) ==
    IF gap = 0 THEN <<44>> ELSE <<44, 10>> \o Spaces(gap * level)

\* SerializeJSONProperty for a value that is not undefined: its JSON text at
\* nesting depth `level` (gap = 0: compact).  A member whose value is undefined
\* is left out; an element that is undefined is written as null; so is a Number
\* that is not finite.
RECURSIVE SerializeJSONProperty(_, _, _)
RECURSIVE StringifyMembers(_, _, _, _)
RECURSIVE StringifyElements(_, _, _, _)
SerializeJSONProperty(v, gap, level) ==
    IF v.t = "string" THEN QuoteJSONString(v.s)
    ELSE IF v.t = "number"
         THEN IF v.s = <<>> THEN <<110, 117, 108, 108>> ELSE NumberToString(v)
    ELSE IF v.t = "boolean" THEN IF v.s = <<1>> THEN <<116, 114, 117, 101>>
                                 ELSE <<102, 97, 108, 115, 101>>
    ELSE IF v.t = "object"
         THEN IF \A i \in 1..Len(v.m) : v.m[i].v.t = "undefined" THEN <<123, 125>>
              ELSE IF gap = 0
                   THEN <<123>> \o StringifyMembers(v.m, 1, gap, level + 1) \o <<125>>
              ELSE <<123, 10>> \o Spaces(gap * (level + 1))
                   \o StringifyMembers(v.m, 1, gap, level + 1)
                   \o <<10>> \o Spaces(gap * level) \o <<125>>
    ELSE IF v.t = "array"
         THEN IF v.m = <<>> THEN <<91, 93>>
              ELSE IF gap = 0
                   THEN <<91>> \o StringifyElements(v.m, 1, gap, level + 1) \o <<93>>
              ELSE <<91, 10>> \o Spaces(gap * (level + 1))
                   \o StringifyElements(v.m, 1, gap, level + 1)
                   \o <<10>> \o Spaces(gap * level) \o <<93>>
    ELSE <<110, 117, 108, 108>>

\* The members of m from the i-th on, those with an undefined value left out
StringifyMembers(m, i, gap, level) ==
    IF i > Len(m) THEN <<>>
    ELSE IF m[i].v.t = "undefined" THEN StringifyMembers(m, i + 1, gap, level)
    ELSE QuoteJSONString(m[i].k)
         \o (IF gap = 0 THEN <<58>> ELSE <<58, 32>>)
         \o SerializeJSONProperty(m[i].v, gap, level)
         \o (IF \A j \in (i + 1)..Len(m) : m[j].v.t = "undefined" THEN <<>>
             ELSE Separator(gap, level) \o StringifyMembers(m, i + 1, gap, level))

\* The elements of m from the i-th on
StringifyElements(m, i, gap, level) ==
    SerializeJSONProperty(m[i], gap, level)
    \o (IF i = Len(m) THEN <<>>
        ELSE Separator(gap, level) \o StringifyElements(m, i + 1, gap, level))

\* JSON.stringify(value, null, gap): a string, or undefined for undefined.
Stringify(v, gap, level) ==
    IF v.t = "undefined" THEN JUndef ELSE JStr(SerializeJSONProperty(v, gap, level))

ParseFail == [ok |-> FALSE, v |-> JUndef, pos |-> 0]

SkipWs(text, pos) == FirstNotIn(text, pos, {9, 10, 13, 32})

\* The code unit an escape at pos (the backslash) stands for, and the escape's
\* length; unit -1 when it is no escape.
Escape(text, pos) ==
    LET e == IF pos + 1 <= Len(text) THEN text[pos + 1] ELSE 0
    IN  IF e \in {34, 92, 47} THEN [unit |-> e, len |-> 2]
        ELSE IF e = 98 THEN [unit |-> 8, len |-> 2]
        ELSE IF e = 102 THEN [unit |-> 12, len |-> 2]
        ELSE IF e = 110 THEN [unit |-> 10, len |-> 2]
        ELSE IF e = 114 THEN [unit |-> 13, len |-> 2]
        ELSE IF e = 116 THEN [unit |-> 9, len |-> 2]
        ELSE IF e = 117 /\ pos + 5 <= Len(text)
                /\ \A k \in 2..5 : HexVal(text[pos + k]) # -1
        THEN [unit |-> HexVal(text[pos + 2]) * 4096 + HexVal(text[pos + 3]) * 256
                       + HexVal(text[pos + 4]) * 16 + HexVal(text[pos + 5]),
              len |-> 6]
        ELSE [unit |-> -1, len |-> 0]

\* The characters of a JSON string from pos0 (after the opening quote) on.  A run
\* of plain characters is taken at once: up to the next quote, backslash or
\* control character.
RECURSIVE ParseChars(_, _, _)
ParseChars(text, pos0, acc0) ==
    LET pos == FirstIn(text, pos0, {34, 92} \cup 0..31)
        acc == acc0 \o SubSeq(text, pos0, pos - 1)
    IN  IF pos > Len(text) THEN ParseFail
        ELSE IF text[pos] = 34 THEN [ok |-> TRUE, v |-> JStr(acc), pos |-> pos + 1]
        ELSE IF text[pos] < 32 \/ Escape(text, pos).unit = -1 THEN ParseFail
        ELSE ParseChars(text, pos + Escape(text, pos).len,
                        Append(acc, Escape(text, pos).unit))

IsDigit(c) == c >= 48 /\ c <= 57

\* The character at pos, 0 past the end
CharAt(text, pos) == IF pos >= 1 /\ pos <= Len(text) THEN text[pos] ELSE 0

\* The digits text[from .. to - 1]
DigitsAt(text, from, to) == [i \in 1..(to - from) |-> text[from + i - 1] - 48]

\* The digits from pos up to the first character that is not one: their value
\* and where they end.
ParseDigits(text, pos) ==
    [ok |-> TRUE,
     v |-> NearestDouble(FALSE, DigitsAt(text, pos, FirstNotIn(text, pos, 48..57)), 0),
     pos |-> FirstNotIn(text, pos, 48..57)]

\* Where the integer part that starts at p ends: after a 0, or after a digit 1-9
\* and the digits that follow it; 0 when there is none.
IntEnd(text, p) ==
    IF CharAt(text, p) = 48 THEN p + 1
    ELSE IF IsDigit(CharAt(text, p)) THEN FirstNotIn(text, p, 48..57)
    ELSE 0

\* Where the fraction that may start at p ends: a point needs a digit after it.
FracEnd(text, p) ==
    IF CharAt(text, p) # 46 THEN p
    ELSE IF IsDigit(CharAt(text, p + 1)) THEN FirstNotIn(text, p + 1, 48..57)
    ELSE 0

\* Where the digits of the exponent that may start at p start and end: e or E, a
\* sign or none, and one digit at least.
ExpDigits(text, p) ==
    IF CharAt(text, p) \notin {69, 101} THEN p
    ELSE IF CharAt(text, p + 1) \in {43, 45} THEN p + 2 ELSE p + 1

ExpEnd(text, p) ==
    IF CharAt(text, p) \notin {69, 101} THEN p
    ELSE IF IsDigit(CharAt(text, ExpDigits(text, p)))
         THEN FirstNotIn(text, ExpDigits(text, p), 48..57)
    ELSE 0

\* The exponent written from p to q (0 when p = q)
ExpValue(text, p, q) ==
    IF p = q THEN 0
    ELSE IF CharAt(text, p + 1) = 45
         THEN 0 - SmallInt(StripZeros(DigitsAt(text, ExpDigits(text, p), q)))
    ELSE SmallInt(StripZeros(DigitsAt(text, ExpDigits(text, p), q)))

\* The number whose integer part is text[p1 .. p2 - 1], fraction text[p2 .. p3 - 1]
\* and exponent text[p3 .. p4 - 1]
NumberOf(text, neg, p1, p2, p3, p4) ==
    [ok |-> TRUE,
     v |-> NearestDouble(neg,
                         DigitsAt(text, p1, p2)
                         \o (IF p3 > p2 THEN DigitsAt(text, p2 + 1, p3) ELSE <<>>),
                         ExpValue(text, p3, p4) - (IF p3 > p2 THEN p3 - p2 - 1 ELSE 0)),
     pos |-> p4]

NumberExp(text, neg, p1, p2, p3, p4) ==
    IF p4 = 0 THEN ParseFail ELSE NumberOf(text, neg, p1, p2, p3, p4)

NumberFrac(text, neg, p1, p2, p3) ==
    IF p3 = 0 THEN ParseFail ELSE NumberExp(text, neg, p1, p2, p3, ExpEnd(text, p3))

\* r, or the number that goes on after the integer part r with a fraction or an
\* exponent; p1 is where the integer part starts.
WholeNumber(text, neg, p1, p2) ==
    IF p2 = 0 THEN ParseFail ELSE NumberFrac(text, neg, p1, p2, FracEnd(text, p2))

\* A number at pos: a minus sign or none, the integer part, a fraction or none,
\* an exponent or none.
ParseNumber(text, pos) ==
    IF text[pos] = 45
    THEN WholeNumber(text, TRUE, pos + 1, IntEnd(text, pos + 1))
    ELSE WholeNumber(text, FALSE, pos, IntEnd(text, pos))

Literal(text, pos, word, v) ==
    IF pos + Len(word) - 1 <= Len(text)
       /\ SubSeq(text, pos, pos + Len(word) - 1) = word
    THEN [ok |-> TRUE, v |-> v, pos |-> pos + Len(word)]
    ELSE ParseFail

\* An array index as a property name: the decimal digits of an integer from 0 to
\* 2^32 - 2, no leading zero.
IsIndexKey(k) ==
    /\ k # <<>>
    /\ \A i \in 1..Len(k) : IsDigit(k[i])
    /\ (k[1] # 48 \/ Len(k) = 1)
    /\ \/ Len(k) < 10
       \/ /\ Len(k) = 10
          /\ ~DigitsLess(<<52, 50, 57, 52, 57, 54, 55, 50, 57, 52>>, k)

\* CreateDataProperty(object, name, v) on the members acc: a name that is there
\* keeps its place and takes the value; a new array index goes among the array
\* indices, in ascending order, which come before all other names; any other new
\* name goes last.
PlaceOf(acc, name) ==
    IF IsIndexKey(name)
    THEN Cardinality({ i \in 1..Len(acc) :
                         IsIndexKey(acc[i].k) /\ DigitsLess(acc[i].k, name) })
    ELSE Len(acc)

DefineMember(acc, name, v) ==
    IF \E i \in 1..Len(acc) : acc[i].k = name
    THEN [i \in 1..Len(acc) |-> IF acc[i].k = name THEN Member(name, v) ELSE acc[i]]
    ELSE SubSeq(acc, 1, PlaceOf(acc, name)) \o <<Member(name, v)>>
         \o SubSeq(acc, PlaceOf(acc, name) + 1, Len(acc))

RECURSIVE ParseAt(_, _)
RECURSIVE ParseMembers(_, _, _)
RECURSIVE AfterName(_, _, _)
RECURSIVE AfterColon(_, _, _, _)
RECURSIVE AfterMember(_, _, _, _)
RECURSIVE ParseElements(_, _, _)
RECURSIVE AfterElement(_, _, _)

\* The value that starts at pos (no whitespace before it).
ParseAt(text, pos) ==
    IF pos > Len(text) THEN ParseFail
    ELSE IF text[pos] = 34 THEN ParseChars(text, pos + 1, <<>>)
    ELSE IF IsDigit(text[pos]) \/ text[pos] = 45 THEN ParseNumber(text, pos)
    ELSE IF text[pos] = 110 THEN Literal(text, pos, <<110, 117, 108, 108>>, JNull)
    ELSE IF text[pos] = 116
         THEN Literal(text, pos, <<116, 114, 117, 101>>, JBool(TRUE))
    ELSE IF text[pos] = 102
         THEN Literal(text, pos, <<102, 97, 108, 115, 101>>, JBool(FALSE))
    ELSE IF text[pos] = 123 THEN ParseMembers(text, SkipWs(text, pos + 1), <<>>)
    ELSE IF text[pos] = 91 THEN ParseElements(text, SkipWs(text, pos + 1), <<>>)
    ELSE ParseFail

\* The members of an object from pos on: the closing brace of an empty object,
\* or the quote of a member's name.
ParseMembers(text, pos, acc) ==
    IF pos > Len(text) THEN ParseFail
    ELSE IF text[pos] = 125 /\ acc = <<>>
         THEN [ok |-> TRUE, v |-> JObj(<<>>), pos |-> pos + 1]
    ELSE IF text[pos] # 34 THEN ParseFail
    ELSE AfterName(text, ParseChars(text, pos + 1, <<>>), acc)

\* name is the member's name as parsed: a colon must follow.
AfterName(text, name, acc) ==
    IF ~name.ok THEN ParseFail
    ELSE AfterColon(text, name.v.s, SkipWs(text, name.pos), acc)

AfterColon(text, name, colon, acc) ==
    IF colon > Len(text) \/ text[colon] # 58 THEN ParseFail
    ELSE AfterMember(text, name, ParseAt(text, SkipWs(text, colon + 1)), acc)

\* val is the member's value as parsed: a closing brace or a comma must follow.
AfterMember(text, name, val, acc) ==
    IF ~val.ok \/ SkipWs(text, val.pos) > Len(text) THEN ParseFail
    ELSE IF text[SkipWs(text, val.pos)] = 125
         THEN [ok |-> TRUE, v |-> JObj(DefineMember(acc, name, val.v)),
               pos |-> SkipWs(text, val.pos) + 1]
    ELSE IF text[SkipWs(text, val.pos)] = 44
              /\ SkipWs(text, SkipWs(text, val.pos) + 1) <= Len(text)
              /\ text[SkipWs(text, SkipWs(text, val.pos) + 1)] = 34
         THEN ParseMembers(text, SkipWs(text, SkipWs(text, val.pos) + 1),
                           DefineMember(acc, name, val.v))
    ELSE ParseFail

\* The elements of an array from pos on: the closing bracket of an empty array,
\* or an element.
ParseElements(text, pos, acc) ==
    IF pos > Len(text) THEN ParseFail
    ELSE IF text[pos] = 93 /\ acc = <<>>
         THEN [ok |-> TRUE, v |-> JArr(<<>>), pos |-> pos + 1]
    ELSE AfterElement(text, ParseAt(text, pos), acc)

\* val is the element as parsed: a closing bracket or a comma must follow.
AfterElement(text, val, acc) ==
    IF ~val.ok \/ SkipWs(text, val.pos) > Len(text) THEN ParseFail
    ELSE IF text[SkipWs(text, val.pos)] = 93
         THEN [ok |-> TRUE, v |-> JArr(Append(acc, val.v)),
               pos |-> SkipWs(text, val.pos) + 1]
    ELSE IF text[SkipWs(text, val.pos)] = 44
              /\ SkipWs(text, SkipWs(text, val.pos) + 1) <= Len(text)
              /\ text[SkipWs(text, SkipWs(text, val.pos) + 1)] # 93
         THEN ParseElements(text, SkipWs(text, SkipWs(text, val.pos) + 1),
                            Append(acc, val.v))
    ELSE ParseFail

\* r, when nothing but whitespace follows the value
WholeText(text, r) ==
    IF r.ok /\ SkipWs(text, r.pos) = Len(text) + 1
    THEN [ok |-> TRUE, v |-> r.v]
    ELSE [ok |-> FALSE, v |-> JUndef]

\* JSON.parse(text): the value, or a SyntaxError.
JsonParse(text) == WholeText(text, ParseAt(text, SkipWs(text, 1)))

\* The members of the object v named name
Hits(v, name) ==
    IF v.t = "object" THEN { i \in 1..Len(v.m) : v.m[i].k = name } ELSE {}

\* The elements or code units a "length" or an array index names
Indexed(v) == IF v.t = "array" THEN v.m ELSE IF v.t = "string" THEN v.s ELSE <<>>

ElementAt(v, i) == IF v.t = "array" THEN v.m[i] ELSE JStr(<<v.s[i]>>)

\* value.name: a TypeError on undefined and null; the last member of that name
\* of an object; the length or an element of an array or a string; undefined on
\* anything else.
GetProp(v, name) ==
    IF v.t \in {"undefined", "null"} THEN [ok |-> FALSE, v |-> JUndef]
    ELSE IF Hits(v, name) # {}
         THEN [ok |-> TRUE,
               v |-> v.m[CHOOSE i \in Hits(v, name) : \A j \in Hits(v, name) : j <= i].v]
    ELSE IF v.t \in {"array", "string"} /\ name = <<108, 101, 110, 103, 116, 104>>
         THEN [ok |-> TRUE, v |-> JNum(IntDigits(Len(Indexed(v))))]
    ELSE IF v.t \in {"array", "string"} /\ IsIndexKey(name) /\ Len(name) <= 7
              /\ SmallInt(DigitsAt(name, 1, Len(name) + 1)) < Len(Indexed(v))
         THEN [ok |-> TRUE,
               v |-> ElementAt(v, SmallInt(DigitsAt(name, 1, Len(name) + 1)) + 1)]
    ELSE [ok |-> TRUE, v |-> JUndef]

\* ToString(value), as atob applies it to its argument: an array is its elements
\* joined by commas, null and undefined among them as nothing; an object is
\* "[object Object]" unless it has a member named toString, which is not a
\* function, and then the conversion throws a TypeError (ok = FALSE).
RECURSIVE JsToString(_)
RECURSIVE JoinElements(_, _)
JsToString(v) ==
    IF v.t = "string" THEN [ok |-> TRUE, s |-> v.s]
    ELSE IF v.t = "number" THEN [ok |-> TRUE, s |-> NumberToString(v)]
    ELSE IF v.t = "undefined"
         THEN [ok |-> TRUE, s |-> <<117, 110, 100, 101, 102, 105, 110, 101, 100>>]
    ELSE IF v.t = "null" THEN [ok |-> TRUE, s |-> <<110, 117, 108, 108>>]
    ELSE IF v.t = "boolean"
         THEN [ok |-> TRUE, s |-> IF v.s = <<1>> THEN <<116, 114, 117, 101>>
                                  ELSE <<102, 97, 108, 115, 101>>]
    ELSE IF v.t = "array" THEN JoinElements(v.m, 1)
    ELSE IF Hits(v, <<116, 111, 83, 116, 114, 105, 110, 103>>) # {}
         THEN [ok |-> FALSE, s |-> <<>>]
    ELSE [ok |-> TRUE,
          s |-> <<91, 111, 98, 106, 101, 99, 116, 32, 79, 98, 106, 101, 99, 116, 93>>]

JoinElements(m, i) ==
    IF i > Len(m) THEN [ok |-> TRUE, s |-> <<>>]
    ELSE \* the element, then the comma and the elements after it
         LET element == IF m[i].t \in {"undefined", "null"}
                        THEN [ok |-> TRUE, s |-> <<>>]
                        ELSE JsToString(m[i])
             rest == IF i = Len(m) THEN [ok |-> TRUE, s |-> <<>>]
                     ELSE JoinElements(m, i + 1)
         IN  IF ~element.ok \/ ~rest.ok THEN [ok |-> FALSE, s |-> <<>>]
             ELSE [ok |-> TRUE,
                   s |-> element.s \o (IF i = Len(m) THEN <<>> ELSE <<44>> \o rest.s)]

----------------------------------------------------------------------------
(* Inputs enumerated by the model *)

\* The passwords tried on what was encrypted: "pw", "pw" with a NUL character
\* after it, U+1F600 (a surrogate pair), and each half of that pair alone.
Passwords == { <<112, 119>>, <<112, 119, 0>>, <<55357, 56832>>, <<55357>>, <<56832>> }

\* The passwords files and keys are encrypted under: "pw" and the high surrogate
\* alone.
ChosenPasswords == { <<112, 119>>, <<55357>> }

\* The empty file and "hi".
Plaintexts == { <<>>, <<104, 105>> }

\* x with bit b flipped
FlipBit(x, b) == IF (x \div (2 ^ b)) % 2 = 1 THEN x - 2 ^ b ELSE x + 2 ^ b

\* Bits flipped when an envelope is tampered with.
TamperBits == { 0 }

\* env with one bit of the byte at (1-based) position i flipped
Tamper(env, i, b) == [env EXCEPT ![i] = FlipBit(@, b)]

\* Lengths an envelope is cut to.
CutLengths == { 0, 11, 12, 27, 28, 43 }

\* "a.txt"; e-acute, quote, backslash, line feed; Greek capital omega and ".md";
\* a high surrogate alone.
Filenames == { <<97, 46, 116, 120, 116>>, <<233, 34, 92, 10>>,
               <<937, 46, 109, 100>>, <<55357>> }

\* Date.now() at export, as decimal digits (2025-10-30T22:40:00Z).
Nows == { <<1, 7, 6, 1, 8, 6, 4, 0, 0, 0, 0, 0, 0>> }

\* navigator.userAgent: "Moz/5"
UserAgents == { <<77, 111, 122, 47, 53>> }

----------------------------------------------------------------------------
(* Results of a service call *)

NoMeta == [filename |-> JUndef, encryptedAt |-> JUndef, encryptedBy |-> JUndef]

\* A call that has not returned anything yet; each action fills in its fields.
\*   ok/err: resolved, or rejected with Error(err);  out: the ArrayBuffer returned;
\*   text: the string returned;  key/meta: the CryptoKey and metadata returned;
\*   calls: the platform calls the function made, in order;  in*: its arguments.
Call(op) ==
    [op |-> op, ok |-> TRUE, err |-> "", out |-> <<>>, text |-> <<>>,
     key |-> NoKey, meta |-> NoMeta, calls |-> <<>>,
     inData |-> <<>>, inText |-> <<>>, inPw |-> <<>>, inKey |-> NoKey,
     inName |-> <<>>]

----------------------------------------------------------------------------
(* Password-direct variant: cryptoService.ts lines 383-472 *)

\* deriveKey that keeps only the first code unit of the password
deriveKey_FirstUnit(password, salt) ==
    Pbkdf2(TextEncode(SubSeq(password, 1, Min(1, Len(password)))), salt)

deriveKey(password, salt) == Pbkdf2(TextEncode(password), salt)

\* The salt and IV one encryptFile(fileContent, password) call draws: saltSeed and
\* ivSeed are the draws of the random source that yield them.
\* PwdSalt with a salt that is the same for every call
PwdSalt_Fixed(saltSeed) == [i \in 1..SALT_LENGTH |-> 0]

PwdSalt(saltSeed) == getRandomValues(SALT_LENGTH, saltSeed)
PwdIv(ivSeed) == getRandomValues(IV_LENGTH, ivSeed)

\* encryptFilePassword that writes the IV first and the salt after it
encryptFilePassword_IvFirst(fileContent, password, saltSeed, ivSeed) ==
    Concat(Concat(PwdIv(ivSeed), PwdSalt(saltSeed)),
           GcmEncrypt(deriveKey(password, PwdSalt(saltSeed)), PwdIv(ivSeed),
                      fileContent))

encryptFilePassword(fileContent, password, saltSeed, ivSeed) ==
    Concat(Concat(PwdSalt(saltSeed), PwdIv(ivSeed)),
           GcmEncrypt(deriveKey(password, PwdSalt(saltSeed)), PwdIv(ivSeed),
                      fileContent))

PwdSaltOf(encryptedBytes) == Slice(encryptedBytes, 0, SALT_LENGTH)
PwdIvOf(encryptedBytes) == Slice(encryptedBytes, SALT_LENGTH, SALT_LENGTH + IV_LENGTH)
\* PwdCiphertextOf that forgets the IV when it skips the header
PwdCiphertextOf_SaltOnly(encryptedBytes) == SliceFrom(encryptedBytes, SALT_LENGTH)

PwdCiphertextOf(encryptedBytes) == SliceFrom(encryptedBytes, SALT_LENGTH + IV_LENGTH)

\* Lines 465-471: the decrypted content, or the one Error the catch block throws.
DirectResult(r) ==
    IF r.ok
    THEN [ok |-> TRUE, err |-> "", out |-> r.bytes,
          calls |-> <<"deriveKey", "decrypt">>]
    ELSE [ok |-> FALSE,
          err |-> "Decryption failed. Please check your password and file.",
          out |-> <<>>, calls |-> <<"deriveKey", "decrypt">>]

decryptFilePassword(encryptedData, password, log) ==
    DirectResult(GcmDecrypt(deriveKey(password, PwdSaltOf(encryptedData)),
                            PwdIvOf(encryptedData), PwdCiphertextOf(encryptedData),
                            log))

----------------------------------------------------------------------------
(* Key-wrap variants: cryptoService.ts lines 1-210 (obfuscated key file with   *)
(* metadata) and 212-381 (plain JSON key file)                                 *)

\* String.fromCharCode(...bytes) has the bytes as its code units; btoa of it
\* cannot fail.
bufferToBase64(buffer) == btoa(buffer).s

\* bytes[i] = binaryString.charCodeAt(i), stored into a Uint8Array
BytesOf(binaryString) ==
    [ok |-> binaryString.ok,
     bytes |-> [i \in 1..Len(binaryString.s) |-> binaryString.s[i] % 256]]

\* base64ToBuffer(base64), lines 44-52: atob converts its argument to a string
\* first, and a conversion that throws leaves nothing decoded.
base64ToBuffer(base64) ==
    IF JsToString(base64).ok THEN BytesOf(atob(JsToString(base64).s))
    ELSE [ok |-> FALSE, bytes |-> <<>>]

\* generateFileKey that returns the same key every time
generateFileKey_Fixed(seed) == RawKey(getRandomValues(KEY_LENGTH_BITS \div 8, 0))

generateFileKey(seed) == RawKey(getRandomValues(KEY_LENGTH_BITS \div 8, seed))

\* FileIv with an IV that is the same for every call
FileIv_Fixed(ivSeed) == [i \in 1..FILE_ENCRYPTION_IV_LENGTH |-> 0]

FileIv(ivSeed) == getRandomValues(FILE_ENCRYPTION_IV_LENGTH, ivSeed)

encryptFile(fileContent, fileKey, ivSeed) ==
    Concat(FileIv(ivSeed), GcmEncrypt(fileKey, FileIv(ivSeed), fileContent))

\* FileIvOf that takes as many bytes as a salt has
FileIvOf_SaltLong(encryptedBytes) == Slice(encryptedBytes, 0, KDF_SALT_LENGTH)

FileIvOf(encryptedBytes) == Slice(encryptedBytes, 0, FILE_ENCRYPTION_IV_LENGTH)
FileCiphertextOf(encryptedBytes) == SliceFrom(encryptedBytes, FILE_ENCRYPTION_IV_LENGTH)

\* FileResult whose catch block logs the error and returns an empty buffer
FileResult_Swallowed(r) ==
    [ok |-> TRUE, err |-> "", out |-> r.bytes, calls |-> <<"decrypt">>]

\* Lines 98-107: the decrypted content, or the one Error the catch block throws.
FileResult(r) ==
    IF r.ok
    THEN [ok |-> TRUE, err |-> "", out |-> r.bytes, calls |-> <<"decrypt">>]
    ELSE [ok |-> FALSE,
          err |-> "File decryption failed. The key may be incorrect for this file.",
          out |-> <<>>, calls |-> <<"decrypt">>]

decryptFile(encryptedData, fileKey, log) ==
    FileResult(GcmDecrypt(fileKey, FileIvOf(encryptedData),
                          FileCiphertextOf(encryptedData), log))

\* deriveKeyEncryptionKey that keeps only the first code unit of the password
deriveKeyEncryptionKey_FirstUnit(password, salt) ==
    Pbkdf2(TextEncode(SubSeq(password, 1, Min(1, Len(password)))), salt)

deriveKeyEncryptionKey(password, salt) == Pbkdf2(TextEncode(password), salt)

\* The salt and IV one exportEncryptedKey call draws.
WrapSalt(saltSeed) == getRandomValues(KDF_SALT_LENGTH, saltSeed)
WrapIv(ivSeed) == getRandomValues(KEY_ENCRYPTION_IV_LENGTH, ivSeed)

\* subtle.exportKey('raw', fileKey)
exportKeyRaw(fileKey) == fileKey.id

\* The file key sealed under the password (lines 143-149 and 332-338).
EncryptedFileKey(fileKey, password, saltSeed, ivSeed) ==
    GcmEncrypt(deriveKeyEncryptionKey(password, WrapSalt(saltSeed)),
               WrapIv(ivSeed), exportKeyRaw(fileKey))

\* The object literal of lines 151-160: { s, i, k, m: { f, t, a } }
KeyData(salt, iv, encryptedFileKey, filename, now, userAgent) ==
    JObj(<<Member(<<115>>, JStr(bufferToBase64(salt))),
           Member(<<105>>, JStr(bufferToBase64(iv))),
           Member(<<107>>, JStr(bufferToBase64(encryptedFileKey))),
           Member(<<109>>, JObj(<<Member(<<102>>, JStr(filename)),
                                  Member(<<116>>, JNum(now)),
                                  Member(<<97>>, JStr(userAgent))>>))>>)

\* Line 163: what btoa returns, or its InvalidCharacterError, which nothing catches.
Obfuscated(encoded) ==
    [ok |-> encoded.ok,
     err |-> IF encoded.ok THEN "" ELSE "InvalidCharacterError",
     text |-> encoded.s]

\* exportEncryptedKey(fileKey, password, filename), lines 137-164
exportEncryptedKey(fileKey, password, filename, now, userAgent, saltSeed, ivSeed) ==
    Obfuscated(btoa(Stringify(
        KeyData(WrapSalt(saltSeed), WrapIv(ivSeed),
                EncryptedFileKey(fileKey, password, saltSeed, ivSeed),
                filename, now, userAgent), 0, 0).s))

\* KeyDataJson that stores the IV as the salt and the salt as the IV
KeyDataJson_Swapped(salt, iv, encryptedFileKey) ==
    JObj(<<Member(<<115, 97, 108, 116>>, JStr(bufferToBase64(iv))),
           Member(<<105, 118>>, JStr(bufferToBase64(salt))),
           Member(<<107, 101, 121>>, JStr(bufferToBase64(encryptedFileKey)))>>)

\* The object literal of lines 340-344: { salt, iv, key }
KeyDataJson(salt, iv, encryptedFileKey) ==
    JObj(<<Member(<<115, 97, 108, 116>>, JStr(bufferToBase64(salt))),
           Member(<<105, 118>>, JStr(bufferToBase64(iv))),
           Member(<<107, 101, 121>>, JStr(bufferToBase64(encryptedFileKey)))>>)

\* exportEncryptedKey(fileKey, password), lines 326-347
exportEncryptedKeyJson(fileKey, password, saltSeed, ivSeed) ==
    Stringify(KeyDataJson(WrapSalt(saltSeed), WrapIv(ivSeed),
                          EncryptedFileKey(fileKey, password, saltSeed, ivSeed)),
              2, 0).s

KeyError == "Key decryption failed. Please check your password and key file."

\* KeyFailure that reports an error of its own when no platform call was reached
KeyFailure_Staged(calls) ==
    [ok |-> FALSE, err |-> IF calls = <<>> THEN "Invalid key file." ELSE KeyError,
     key |-> NoKey, meta |-> NoMeta, calls |-> calls]

\* What an import throws into its catch block: the one Error it rethrows.
KeyFailure(calls) ==
    [ok |-> FALSE, err |-> KeyError, key |-> NoKey, meta |-> NoMeta, calls |-> calls]

\* subtle.importKey('raw', bytes, {name: 'AES-GCM'}, ...): a DataError unless the
\* key is 128, 192 or 256 bits long.
ImportableRaw(bytes) == Len(bytes) \in {16, 24, 32}

\* Lines 189-195 and 370-376: import the raw key that subtle.decrypt returned.
ImportRaw(raw) ==
    IF ~raw.ok THEN KeyFailure(<<"deriveKey", "decrypt">>)
    ELSE IF ~ImportableRaw(raw.bytes)
         THEN KeyFailure(<<"deriveKey", "decrypt", "importKey">>)
    ELSE [ok |-> TRUE, err |-> "", key |-> RawKey(raw.bytes), meta |-> NoMeta,
          calls |-> <<"deriveKey", "decrypt", "importKey">>]

\* Lines 177-179 and 358-360: base64ToBuffer of a field of keyData, where prop is
\* what reading the field gave.
FieldBuffer(prop) ==
    IF prop.ok THEN base64ToBuffer(prop.v) ELSE [ok |-> FALSE, bytes |-> <<>>]

\* Lines 177-195 and 358-376: with the three fields decoded, derive the
\* key-encryption key, decrypt the file key, import it.
UnwrapKey(salt, iv, encryptedFileKey, password, log) ==
    IF ~salt.ok \/ ~iv.ok \/ ~encryptedFileKey.ok THEN KeyFailure(<<>>)
    ELSE ImportRaw(GcmDecrypt(deriveKeyEncryptionKey(password, salt.bytes),
                              iv.bytes, encryptedFileKey.bytes, log))

\* keyData.m.f, keyData.m.t, keyData.m.a where m is what reading keyData.m gave
MetadataFields(m) ==
    [ok |-> m.ok /\ GetProp(m.v, <<102>>).ok,
     meta |-> [filename |-> GetProp(m.v, <<102>>).v,
               encryptedAt |-> GetProp(m.v, <<116>>).v,
               encryptedBy |-> GetProp(m.v, <<97>>).v]]

\* The metadata object of lines 199-203
MetadataOf(keyData) == MetadataFields(GetProp(keyData, <<109>>))

\* Lines 197-204: the file key r with the metadata md
WithMetadata(r, md) ==
    IF ~r.ok THEN r
    ELSE IF ~md.ok THEN KeyFailure(r.calls)
    ELSE [r EXCEPT !.meta = md.meta]

\* ImportKeyData that reads the salt where the IV is and the IV where the salt is
ImportKeyData_Swapped(keyData, password, log) ==
    IF ~keyData.ok THEN KeyFailure(<<>>)
    ELSE WithMetadata(UnwrapKey(FieldBuffer(GetProp(keyData.v, <<105>>)),
                                FieldBuffer(GetProp(keyData.v, <<115>>)),
                                FieldBuffer(GetProp(keyData.v, <<107>>)),
                                password, log),
                      MetadataOf(keyData.v))

\* Lines 177-204, where keyData is what JSON.parse gave
ImportKeyData(keyData, password, log) ==
    IF ~keyData.ok THEN KeyFailure(<<>>)
    ELSE WithMetadata(UnwrapKey(FieldBuffer(GetProp(keyData.v, <<115>>)),
                                FieldBuffer(GetProp(keyData.v, <<105>>)),
                                FieldBuffer(GetProp(keyData.v, <<107>>)),
                                password, log),
                      MetadataOf(keyData.v))

\* Line 175, where jsonKeyFile is what atob gave
ParseDecoded(jsonKeyFile) ==
    IF jsonKeyFile.ok THEN JsonParse(jsonKeyFile.s) ELSE [ok |-> FALSE, v |-> JUndef]

\* importAndDecryptKey(encodedKeyFile, password), lines 172-210
importAndDecryptKey(encodedKeyFile, password, log) ==
    ImportKeyData(ParseDecoded(atob(encodedKeyFile)), password, log)

\* Lines 370-376: the promise of subtle.importKey is returned, not awaited, so
\* the catch of lines 377-380 does not see its rejection: raw bytes that are no AES
\* key reject the call with the platform's DataError.  r is what UnwrapKey gave.
ReturnedImport(r) ==
    IF ~r.ok /\ r.calls = <<"deriveKey", "decrypt", "importKey">>
    THEN [r EXCEPT !.err = "DataError"]
    ELSE r

\* Lines 358-378, where keyData is what JSON.parse gave
ImportKeyDataJson(keyData, password, log) ==
    IF ~keyData.ok THEN KeyFailure(<<>>)
    ELSE ReturnedImport(
             UnwrapKey(FieldBuffer(GetProp(keyData.v, <<115, 97, 108, 116>>)),
                       FieldBuffer(GetProp(keyData.v, <<105, 118>>)),
                       FieldBuffer(GetProp(keyData.v, <<107, 101, 121>>)),
                       password, log))

\* The plain-JSON import that hands a text JSON.parse rejects to the obfuscated
\* import
importAndDecryptKeyJson_EitherFormat(jsonKeyFile, password, log) ==
    IF JsonParse(jsonKeyFile).ok
    THEN ImportKeyDataJson(JsonParse(jsonKeyFile), password, log)
    ELSE importAndDecryptKey(jsonKeyFile, password, log)

\* importAndDecryptKey(jsonKeyFile, password), lines 355-381
importAndDecryptKeyJson(jsonKeyFile, password, log) ==
    ImportKeyDataJson(JsonParse(jsonKeyFile), password, log)

----------------------------------------------------------------------------
(* Actions *)

\* A call returns to the event loop at each platform call it awaits, and the
\* steps of other calls fall in between.  deriveKey and deriveKeyEncryptionKey
\* await importKey and deriveKey one after the other with nothing in between:
\* the two are one wait, "deriveKey".  A decrypting or importing call keeps its
\* arguments while it waits (the key file text of an import in inData), draws
\* nothing, and reads the cipher's log where subtle.decrypt settles.

\* A call in flight: the function, the await it waits at, its arguments, and the
\* seeds of the salt and the IV it drew (0: not drawn yet).
InFlight(op, at, data, pw, key, name, saltSeed, ivSeed) ==
    [op |-> op, at |-> at, inData |-> data, inPw |-> pw, inKey |-> key,
     inName |-> name, saltSeed |-> saltSeed, ivSeed |-> ivSeed]

\* The calls in flight that wait at `at` in op
Waiting(op, at) ==
    { i \in 1..Len(pending) : pending[i].op = op /\ pending[i].at = at }

\* pending without its i-th call
Settled(i) == SubSeq(pending, 1, i - 1) \o SubSeq(pending, i + 1, Len(pending))

\* Whether n more draws keep the run within MaxDraws, with the two draws of each
\* export that has not made them yet.
DrawsLeft(n) ==
    rng + n + 2 * Cardinality({ i \in 1..Len(pending) : pending[i].at = "exportKey" })
        <= MaxDraws

\* encryptFile(fileContent, password), lines 425-431: the salt and the IV are
\* drawn and deriveKey is called; the function waits for the key.
EncryptDirect ==
    /\ DrawsLeft(2)
    /\ Len(pending) < MaxPending
    /\ \E fileContent \in Plaintexts, password \in ChosenPasswords :
          pending' = Append(pending,
                            InFlight("encryptFilePassword", "deriveKey", fileContent,
                                     password, NoKey, <<>>, rng + 1, rng + 2))
    /\ rng' = rng + 2
    /\ UNCHANGED <<sealed, encLog, directs, fileKeys, files, keyFiles, last>>
    /\ UNCHANGED ui

\* Lines 431-436: the key is there, subtle.encrypt is called.
EncryptDirectDerived ==
    /\ \E i \in Waiting("encryptFilePassword", "deriveKey") :
          \E c \in {pending[i]} :
              /\ sealed' = sealed \cup {Sealing(deriveKey(c.inPw, PwdSalt(c.saltSeed)),
                                                PwdIv(c.ivSeed), c.inData)}
              /\ encLog' = Append(encLog,
                                  [key |-> deriveKey(c.inPw, PwdSalt(c.saltSeed)),
                                   iv |-> PwdIv(c.ivSeed), draw |-> c.ivSeed,
                                   by |-> "encryptFilePassword"])
              /\ pending' = [pending EXCEPT ![i].at = "encrypt"]
    /\ UNCHANGED <<rng, directs, fileKeys, files, keyFiles, last>>
    /\ UNCHANGED ui

\* Lines 438-442: the ciphertext is there, the envelope is built and returned.
EncryptDirectDone ==
    /\ \E i \in Waiting("encryptFilePassword", "encrypt") :
          \E c \in {pending[i]} :
              \E env \in {encryptFilePassword(c.inData, c.inPw, c.saltSeed, c.ivSeed)} :
                  /\ directs' = Append(directs, [pt |-> c.inData, pw |-> c.inPw,
                                                 env |-> env])
                  /\ last' = [Call("encryptFilePassword") EXCEPT
                                  !.out = env, !.inData = c.inData, !.inPw = c.inPw,
                                  !.calls = <<"getRandomValues", "getRandomValues",
                                              "deriveKey", "encrypt">>]
                  /\ pending' = Settled(i)
    /\ UNCHANGED <<rng, sealed, encLog, fileKeys, files, keyFiles>>
    /\ UNCHANGED ui

\* The envelopes handed to decryptFile(encryptedData, password): each produced one,
\* with every password; and, with its own password, each one with a bit flipped
\* at any position or cut short.
DirectInputs ==
    UNION { { <<d.env, pw>> : pw \in Passwords }
            \cup { <<Tamper(d.env, i, b), d.pw>> : i \in 1..Len(d.env), b \in TamperBits }
            \cup { <<Slice(d.env, 0, n), d.pw>> : n \in CutLengths }
          : d \in { directs[k] : k \in 1..Len(directs) } }

\* decryptFile(encryptedData, password), lines 452-459: the salt, the IV and the
\* ciphertext are sliced off and deriveKey is called; the function waits for the
\* key.
DecryptDirect ==
    /\ Len(pending) < MaxPending
    /\ \E inp \in DirectInputs :
          pending' = Append(pending,
                            InFlight("decryptFilePassword", "deriveKey", inp[1], inp[2],
                                     NoKey, <<>>, 0, 0))
    /\ UNCHANGED <<rng, sealed, encLog, directs, fileKeys, files, keyFiles, last>>
    /\ UNCHANGED ui

\* Lines 459-466: the key is there, subtle.decrypt is called.
DecryptDirectDerived ==
    /\ \E i \in Waiting("decryptFilePassword", "deriveKey") :
          pending' = [pending EXCEPT ![i].at = "decrypt"]
    /\ UNCHANGED <<rng, sealed, encLog, directs, fileKeys, files, keyFiles, last>>
    /\ UNCHANGED ui

\* Lines 462-471: subtle.decrypt settled; the plaintext is returned, or the
\* rejection is caught and the Error thrown.
DecryptDirectDone ==
    /\ \E i \in Waiting("decryptFilePassword", "decrypt") :
          \E c \in {pending[i]} :
              \E r \in {decryptFilePassword(c.inData, c.inPw, sealed)} :
                  /\ last' = [Call("decryptFilePassword") EXCEPT
                                  !.ok = r.ok, !.err = r.err, !.out = r.out,
                                  !.calls = r.calls,
                                  !.inData = c.inData, !.inPw = c.inPw]
                  /\ pending' = Settled(i)
    /\ UNCHANGED <<rng, sealed, encLog, directs, fileKeys, files, keyFiles>>
    /\ UNCHANGED ui

\* generateFileKey(), lines 58-64: the one platform call it returns the promise
\* of.  The key comes from the platform's random source.
GenerateFileKey ==
    /\ DrawsLeft(1)
    /\ fileKeys' = Append(fileKeys, generateFileKey(rng + 1))
    /\ last' = [Call("generateFileKey") EXCEPT
                    !.key = generateFileKey(rng + 1), !.calls = <<"generateKey">>]
    /\ rng' = rng + 1
    /\ UNCHANGED <<sealed, encLog, directs, files, keyFiles, pending>>
    /\ UNCHANGED ui

KeysHeld == { fileKeys[k] : k \in 1..Len(fileKeys) }

\* encryptFile(fileContent, fileKey), lines 72-78: the IV is drawn and
\* subtle.encrypt is called; the function waits for the ciphertext.
EncryptWithKey ==
    /\ DrawsLeft(1)
    /\ Len(pending) < MaxPending
    /\ \E fileContent \in Plaintexts, fileKey \in KeysHeld :
          /\ sealed' = sealed \cup {Sealing(fileKey, FileIv(rng + 1), fileContent)}
          /\ encLog' = Append(encLog, [key |-> fileKey, iv |-> FileIv(rng + 1),
                                       draw |-> rng + 1, by |-> "encryptFile"])
          /\ pending' = Append(pending,
                               InFlight("encryptFile", "encrypt", fileContent, <<>>,
                                        fileKey, <<>>, 0, rng + 1))
    /\ rng' = rng + 1
    /\ UNCHANGED <<directs, fileKeys, files, keyFiles, last>>
    /\ UNCHANGED ui

\* Lines 80-84: the ciphertext is there, the envelope is built and returned.
EncryptWithKeyDone ==
    /\ \E i \in Waiting("encryptFile", "encrypt") :
          \E c \in {pending[i]} :
              \E env \in {encryptFile(c.inData, c.inKey, c.ivSeed)} :
                  /\ files' = Append(files, [pt |-> c.inData, key |-> c.inKey,
                                             env |-> env])
                  /\ last' = [Call("encryptFile") EXCEPT
                                  !.out = env, !.inData = c.inData, !.inKey = c.inKey,
                                  !.calls = <<"getRandomValues", "encrypt">>]
                  /\ pending' = Settled(i)
    /\ UNCHANGED <<rng, sealed, encLog, directs, fileKeys, keyFiles>>
    /\ UNCHANGED ui

\* Lines 145-149 and 334-338: the subtle.encrypt call of both exportEncryptedKey
\* variants.
WrapEffects(fileKey, password, saltSeed, ivSeed, by) ==
    /\ sealed' = sealed \cup
           {Sealing(deriveKeyEncryptionKey(password, WrapSalt(saltSeed)),
                    WrapIv(ivSeed), exportKeyRaw(fileKey))}
    /\ encLog' = Append(encLog,
                        [key |-> deriveKeyEncryptionKey(password, WrapSalt(saltSeed)),
                         iv |-> WrapIv(ivSeed), draw |-> ivSeed, by |-> by])

WrapCalls == <<"exportKey", "getRandomValues", "getRandomValues", "deriveKey", "encrypt">>

\* exportEncryptedKey(fileKey, password, filename), line 138: subtle.exportKey is
\* called; the function waits for the raw key.
ExportKey ==
    /\ DrawsLeft(2)
    /\ Len(pending) < MaxPending
    /\ \E fileKey \in KeysHeld, password \in ChosenPasswords, filename \in Filenames :
          pending' = Append(pending,
                            InFlight("exportEncryptedKey", "exportKey", <<>>, password,
                                     fileKey, filename, 0, 0))
    /\ UNCHANGED <<rng, sealed, encLog, directs, fileKeys, files, keyFiles, last>>
    /\ UNCHANGED ui

\* exportEncryptedKey(fileKey, password), line 327: the same in the plain-JSON
\* variant.
ExportKeyJson ==
    /\ DrawsLeft(2)
    /\ Len(pending) < MaxPending
    /\ \E fileKey \in KeysHeld, password \in ChosenPasswords :
          pending' = Append(pending,
                            InFlight("exportEncryptedKeyJson", "exportKey", <<>>,
                                     password, fileKey, <<>>, 0, 0))
    /\ UNCHANGED <<rng, sealed, encLog, directs, fileKeys, files, keyFiles, last>>
    /\ UNCHANGED ui

\* Lines 140-143 and 329-332: the raw key is there, the salt and the IV are drawn
\* and deriveKeyEncryptionKey is called.
WrapDrawn ==
    /\ rng + 2 <= MaxDraws
    /\ \E i \in Waiting("exportEncryptedKey", "exportKey")
                 \cup Waiting("exportEncryptedKeyJson", "exportKey") :
          pending' = [pending EXCEPT ![i].at = "deriveKey",
                                     ![i].saltSeed = rng + 1, ![i].ivSeed = rng + 2]
    /\ rng' = rng + 2
    /\ UNCHANGED <<sealed, encLog, directs, fileKeys, files, keyFiles, last>>
    /\ UNCHANGED ui

\* Lines 143-149 and 332-338: the key-encryption key is there, subtle.encrypt is
\* called.
WrapDerived ==
    /\ \E i \in Waiting("exportEncryptedKey", "deriveKey")
                 \cup Waiting("exportEncryptedKeyJson", "deriveKey") :
          \E c \in {pending[i]} :
              /\ WrapEffects(c.inKey, c.inPw, c.saltSeed, c.ivSeed, c.op)
              /\ pending' = [pending EXCEPT ![i].at = "encrypt"]
    /\ UNCHANGED <<rng, directs, fileKeys, files, keyFiles, last>>
    /\ UNCHANGED ui

\* Lines 151-163: the sealed key is there; the record is built with the time and
\* the user agent of this moment, serialised and encoded.
ExportKeyDone ==
    /\ \E i \in Waiting("exportEncryptedKey", "encrypt"),
          now \in Nows, userAgent \in UserAgents :
          \E c \in {pending[i]} :
              \E r \in {exportEncryptedKey(c.inKey, c.inPw, c.inName, now, userAgent,
                                           c.saltSeed, c.ivSeed)} :
                  /\ keyFiles' = IF r.ok
                                 THEN Append(keyFiles,
                                          [variant |-> "obfuscated", key |-> c.inKey,
                                           pw |-> c.inPw, name |-> c.inName,
                                           at |-> now, by |-> userAgent,
                                           text |-> r.text])
                                 ELSE keyFiles
                  /\ last' = [Call("exportEncryptedKey") EXCEPT
                                  !.ok = r.ok, !.err = r.err, !.text = r.text,
                                  !.inKey = c.inKey, !.inPw = c.inPw,
                                  !.inName = c.inName, !.calls = WrapCalls]
                  /\ pending' = Settled(i)
    /\ UNCHANGED <<rng, sealed, encLog, directs, fileKeys, files>>
    /\ UNCHANGED ui

\* Lines 340-346: the sealed key is there; the record is built and serialised.
ExportKeyJsonDone ==
    /\ \E i \in Waiting("exportEncryptedKeyJson", "encrypt") :
          \E c \in {pending[i]} :
              \E text \in {exportEncryptedKeyJson(c.inKey, c.inPw, c.saltSeed,
                                                  c.ivSeed)} :
                  /\ keyFiles' = Append(keyFiles,
                                     [variant |-> "json", key |-> c.inKey,
                                      pw |-> c.inPw, name |-> <<>>, at |-> <<>>,
                                      by |-> <<>>, text |-> text])
                  /\ last' = [Call("exportEncryptedKeyJson") EXCEPT
                                  !.text = text, !.inKey = c.inKey, !.inPw = c.inPw,
                                  !.calls = WrapCalls]
                  /\ pending' = Settled(i)
    /\ UNCHANGED <<rng, sealed, encLog, directs, fileKeys, files>>
    /\ UNCHANGED ui

DirectsHeld == { directs[k] : k \in 1..Len(directs) }
FilesHeld == { files[k] : k \in 1..Len(files) }
KeyFilesHeld == { keyFiles[k] : k \in 1..Len(keyFiles) }

\* The (envelope, key) pairs handed to decryptFile(encryptedData, fileKey): each
\* produced envelope with every generated key; and, with its own key, each one
\* with a bit flipped at any position or cut short.
FileInputs ==
    UNION { { <<f.env, k>> : k \in KeysHeld }
            \cup { <<Tamper(f.env, i, b), f.key>> : i \in 1..Len(f.env), b \in TamperBits }
            \cup { <<Slice(f.env, 0, n), f.key>> : n \in CutLengths }
          : f \in FilesHeld }

\* decryptFile(encryptedData, fileKey), lines 93-103: the IV and the ciphertext
\* are sliced off and subtle.decrypt is called; the function waits for the
\* plaintext.
DecryptWithKey ==
    /\ Len(pending) < MaxPending
    /\ \E inp \in FileInputs :
          pending' = Append(pending,
                            InFlight("decryptFile", "decrypt", inp[1], <<>>, inp[2],
                                     <<>>, 0, 0))
    /\ UNCHANGED <<rng, sealed, encLog, directs, fileKeys, files, keyFiles, last>>
    /\ UNCHANGED ui

\* Lines 98-107: subtle.decrypt settled; the plaintext is returned, or the
\* rejection is caught and the Error thrown.
DecryptWithKeyDone ==
    /\ \E i \in Waiting("decryptFile", "decrypt") :
          \E c \in {pending[i]} :
              \E r \in {decryptFile(c.inData, c.inKey, sealed)} :
                  /\ last' = [Call("decryptFile") EXCEPT
                                  !.ok = r.ok, !.err = r.err, !.out = r.out,
                                  !.calls = r.calls,
                                  !.inData = c.inData, !.inKey = c.inKey]
                  /\ pending' = Settled(i)
    /\ UNCHANGED <<rng, sealed, encLog, directs, fileKeys, files, keyFiles>>
    /\ UNCHANGED ui

\* obj without its members named name
WithoutMember(obj, name) == JObj(SelectSeq(obj.m, LAMBDA e : e.k # name))

\* The record inside a key file the model produced.
RecordOf(kf) ==
    JsonParse(IF kf.variant = "json" THEN kf.text ELSE atob(kf.text).s).v

\* t without its last character
CutShort(t) == SubSeq(t, 1, Len(t) - 1)

\* The member e, its value replaced by the base64 of the bytes it decodes to with
\* one bit of the first byte flipped
TamperedMember(e) ==
    Member(e.k, JStr(bufferToBase64(Tamper(base64ToBuffer(e.v).bytes, 1, 0))))

\* record with its sealed key (field k or key) tampered with
TamperedKey(record) ==
    JObj([i \in 1..Len(record.m) |->
            IF record.m[i].k \in {<<107>>, <<107, 101, 121>>}
            THEN TamperedMember(record.m[i])
            ELSE record.m[i]])

\* Key files that are not what either export writes, made from the record of one
\* it wrote: the record with one member dropped, the record cut short, null, and
\* the record with its sealed key tampered with.
BrokenTexts(record) ==
    { Stringify(WithoutMember(record, name), 0, 0).s :
        name \in { record.m[i].k : i \in 1..Len(record.m) } }
    \cup { CutShort(Stringify(record, 0, 0).s), <<110, 117, 108, 108>>,
           Stringify(TamperedKey(record), 0, 0).s }

BrokenRecords(kf) == BrokenTexts(RecordOf(kf))

\* The key files handed to the obfuscated importAndDecryptKey: every produced one
\* (of either variant) with every password; and with its own password the broken
\* records, base64-encoded, and the text with its last character dropped.
ImportInputs ==
    UNION { { <<kf.text, pw>> : pw \in Passwords }
            \cup { <<btoa(t).s, kf.pw>> : t \in BrokenRecords(kf) }
            \cup { <<CutShort(kf.text), kf.pw>> }
          : kf \in KeyFilesHeld }

\* A key file put together from a password-direct envelope: its salt, its IV and,
\* as the key, its sealed plaintext.  The password of the envelope opens it, and
\* what it opens to is the plaintext, which is no AES key unless it is 16, 24 or
\* 32 bytes long.
BorrowedKeyFile(encryptedBytes) ==
    Stringify(KeyDataJson(PwdSaltOf(encryptedBytes), PwdIvOf(encryptedBytes),
                          PwdCiphertextOf(encryptedBytes)), 2, 0).s

\* The same for the plain-JSON importAndDecryptKey, the broken records as they
\* are; and the key files borrowed from the password-direct envelopes held.
ImportJsonInputs ==
    UNION { { <<kf.text, pw>> : pw \in Passwords }
            \cup { <<t, kf.pw>> : t \in BrokenRecords(kf) }
          : kf \in KeyFilesHeld }
    \cup { <<BorrowedKeyFile(d.env), d.pw>> : d \in DirectsHeld }

\* What the import c in flight comes to, with the cipher's log as it is
ImportResult(c) ==
    IF c.op = "importAndDecryptKey"
    THEN importAndDecryptKey(c.inData, c.inPw, sealed)
    ELSE importAndDecryptKeyJson(c.inData, c.inPw, sealed)

\* What the caller of the import c gets when it settles with r
ImportSettled(c, r) ==
    [Call(c.op) EXCEPT !.ok = r.ok, !.err = r.err, !.key = r.key, !.meta = r.meta,
                       !.calls = r.calls, !.inText = c.inData, !.inPw = c.inPw]

\* An import called with the key file text inp[1] and the password inp[2], which
\* comes to r: a text that does not decode, parse or hold the three fields
\* throws before anything is awaited, and the call settles as it is made;
\* otherwise deriveKeyEncryptionKey is called and the function waits for the key.
ImportCalled(op, inp, r) ==
    IF r.calls = <<>>
    THEN /\ last' = ImportSettled(InFlight(op, "", inp[1], inp[2], NoKey, <<>>, 0, 0), r)
         /\ UNCHANGED pending
    ELSE /\ Len(pending) < MaxPending
         /\ pending' = Append(pending,
                              InFlight(op, "deriveKey", inp[1], inp[2], NoKey, <<>>,
                                       0, 0))
         /\ UNCHANGED last

\* importAndDecryptKey(encodedKeyFile, password), lines 172-181
ImportKey ==
    /\ \E inp \in ImportInputs :
          ImportCalled("importAndDecryptKey", inp,
                       importAndDecryptKey(inp[1], inp[2], sealed))
    /\ UNCHANGED <<rng, sealed, encLog, directs, fileKeys, files, keyFiles>>
    /\ UNCHANGED ui

\* importAndDecryptKey(jsonKeyFile, password), lines 355-362
ImportKeyJson ==
    /\ \E inp \in ImportJsonInputs :
          ImportCalled("importAndDecryptKeyJson", inp,
                       importAndDecryptKeyJson(inp[1], inp[2], sealed))
    /\ UNCHANGED <<rng, sealed, encLog, directs, fileKeys, files, keyFiles>>
    /\ UNCHANGED ui

ImportOps == {"importAndDecryptKey", "importAndDecryptKeyJson"}

\* Lines 181-187 and 362-368: the key-encryption key is there, subtle.decrypt is
\* called.
ImportKeyDerived ==
    /\ \E op \in ImportOps :
          \E i \in Waiting(op, "deriveKey") :
              pending' = [pending EXCEPT ![i].at = "decrypt"]
    /\ UNCHANGED <<rng, sealed, encLog, directs, fileKeys, files, keyFiles, last>>
    /\ UNCHANGED ui

\* Lines 183-195 and 364-376, 206-209 and 377-380: subtle.decrypt settled.  Its
\* rejection is caught and the Error thrown; with the raw file key
\* subtle.importKey is called.
ImportKeyUnsealed ==
    /\ \E op \in ImportOps :
          \E i \in Waiting(op, "decrypt") :
              \E c \in {pending[i]} :
                  \E r \in {ImportResult(c)} :
                      IF Len(r.calls) = 3
                      THEN /\ pending' = [pending EXCEPT ![i].at = "importKey"]
                           /\ UNCHANGED last
                      ELSE /\ last' = ImportSettled(c, r)
                           /\ pending' = Settled(i)
    /\ UNCHANGED <<rng, sealed, encLog, directs, fileKeys, files, keyFiles>>
    /\ UNCHANGED ui

\* Lines 189-209 and 370-376: subtle.importKey settled, and the call with it.
ImportKeyDone ==
    /\ \E op \in ImportOps :
          \E i \in Waiting(op, "importKey") :
              \E c \in {pending[i]} :
                  /\ last' = ImportSettled(c, ImportResult(c))
                  /\ pending' = Settled(i)
    /\ UNCHANGED <<rng, sealed, encLog, directs, fileKeys, files, keyFiles>>
    /\ UNCHANGED ui

----------------------------------------------------------------------------
(* The components' view of a file, a status and the text of a file *)

\* A File the user selected, or null (some = FALSE).
NoFile == [some |-> FALSE, name |-> <<>>, type |-> <<>>, data |-> <<>>]
UiFile(name, type, data) == [some |-> TRUE, name |-> name, type |-> type, data |-> data]

\* The status state: null, or { type, message }.
NoStatus == [type |-> "null", message |-> ""]
Status(type, message) == [type |-> type, message |-> message]

\* new Blob([text]): the UTF-8 encoding of the text.  ASCII text encodes to itself.
BlobOf(text) ==
    IF \A i \in 1..Len(text) : text[i] < 128 THEN text ELSE TextEncode(text)

\* String.prototype.endsWith
EndsWith(s, suffix) ==
    /\ Len(s) >= Len(suffix)
    /\ SubSeq(s, Len(s) - Len(suffix) + 1, Len(s)) = suffix

\* The UTF-16 code units of a code point.
UnitsOf(cp) ==
    IF cp < 65536 THEN <<cp>>
    ELSE <<55296 + ((cp - 65536) \div 1024), 56320 + ((cp - 65536) % 1024)>>

\* The simple lowercase mappings of Unicode 17 above U+007F, as <<first, last,
\* step, shift>>: every step-th code point from first to last lowers to itself
\* plus shift.
LowerRanges ==
    { <<192, 214, 1, 32>>, <<216, 222, 1, 32>>, <<256, 302, 2, 1>>,
      <<304, 304, 1, -199>>, <<306, 310, 2, 1>>, <<313, 327, 2, 1>>,
      <<330, 374, 2, 1>>, <<376, 376, 1, -121>>, <<377, 381, 2, 1>>,
      <<385, 385, 1, 210>>, <<386, 388, 2, 1>>, <<390, 390, 1, 206>>,
      <<391, 391, 1, 1>>, <<393, 394, 1, 205>>, <<395, 395, 1, 1>>,
      <<398, 398, 1, 79>>, <<399, 399, 1, 202>>, <<400, 400, 1, 203>>,
      <<401, 401, 1, 1>>, <<403, 403, 1, 205>>, <<404, 404, 1, 207>>,
      <<406, 406, 1, 211>>, <<407, 407, 1, 209>>, <<408, 408, 1, 1>>,
      <<412, 412, 1, 211>>, <<413, 413, 1, 213>>, <<415, 415, 1, 214>>,
      <<416, 420, 2, 1>>, <<422, 422, 1, 218>>, <<423, 423, 1, 1>>,
      <<425, 425, 1, 218>>, <<428, 428, 1, 1>>, <<430, 430, 1, 218>>,
      <<431, 431, 1, 1>>, <<433, 434, 1, 217>>, <<435, 437, 2, 1>>,
      <<439, 439, 1, 219>>, <<440, 440, 1, 1>>, <<444, 444, 1, 1>>,
      <<452, 452, 1, 2>>, <<453, 453, 1, 1>>, <<455, 455, 1, 2>>,
      <<456, 456, 1, 1>>, <<458, 458, 1, 2>>, <<459, 475, 2, 1>>,
      <<478, 494, 2, 1>>, <<497, 497, 1, 2>>, <<498, 500, 2, 1>>,
      <<502, 502, 1, -97>>, <<503, 503, 1, -56>>, <<504, 542, 2, 1>>,
      <<544, 544, 1, -130>>, <<546, 562, 2, 1>>, <<570, 570, 1, 10795>>,
      <<571, 571, 1, 1>>, <<573, 573, 1, -163>>, <<574, 574, 1, 10792>>,
      <<577, 577, 1, 1>>, <<579, 579, 1, -195>>, <<580, 580, 1, 69>>,
      <<581, 581, 1, 71>>, <<582, 590, 2, 1>>, <<880, 882, 2, 1>>,
      <<886, 886, 1, 1>>, <<895, 895, 1, 116>>, <<902, 902, 1, 38>>,
      <<904, 906, 1, 37>>, <<908, 908, 1, 64>>, <<910, 911, 1, 63>>,
      <<913, 929, 1, 32>>, <<931, 939, 1, 32>>, <<975, 975, 1, 8>>,
      <<984, 1006, 2, 1>>, <<1012, 1012, 1, -60>>, <<1015, 1015, 1, 1>>,
      <<1017, 1017, 1, -7>>, <<1018, 1018, 1, 1>>, <<1021, 1023, 1, -130>>,
      <<1024, 1039, 1, 80>>, <<1040, 1071, 1, 32>>, <<1120, 1152, 2, 1>>,
      <<1162, 1214, 2, 1>>, <<1216, 1216, 1, 15>>, <<1217, 1229, 2, 1>>,
      <<1232, 1326, 2, 1>>, <<1329, 1366, 1, 48>>, <<4256, 4293, 1, 7264>>,
      <<4295, 4295, 1, 7264>>, <<4301, 4301, 1, 7264>>, <<5024, 5103, 1, 38864>>,
      <<5104, 5109, 1, 8>>, <<7305, 7305, 1, 1>>, <<7312, 7354, 1, -3008>>,
      <<7357, 7359, 1, -3008>>, <<7680, 7828, 2, 1>>, <<7838, 7838, 1, -7615>>,
      <<7840, 7934, 2, 1>>, <<7944, 7951, 1, -8>>, <<7960, 7965, 1, -8>>,
      <<7976, 7983, 1, -8>>, <<7992, 7999, 1, -8>>, <<8008, 8013, 1, -8>>,
      <<8025, 8031, 2, -8>>, <<8040, 8047, 1, -8>>, <<8072, 8079, 1, -8>>,
      <<8088, 8095, 1, -8>>, <<8104, 8111, 1, -8>>, <<8120, 8121, 1, -8>>,
      <<8122, 8123, 1, -74>>, <<8124, 8124, 1, -9>>, <<8136, 8139, 1, -86>>,
      <<8140, 8140, 1, -9>>, <<8152, 8153, 1, -8>>, <<8154, 8155, 1, -100>>,
      <<8168, 8169, 1, -8>>, <<8170, 8171, 1, -112>>, <<8172, 8172, 1, -7>>,
      <<8184, 8185, 1, -128>>, <<8186, 8187, 1, -126>>, <<8188, 8188, 1, -9>>,
      <<8486, 8486, 1, -7517>>, <<8490, 8490, 1, -8383>>, <<8491, 8491, 1, -8262>>,
      <<8498, 8498, 1, 28>>, <<8544, 8559, 1, 16>>, <<8579, 8579, 1, 1>>,
      <<9398, 9423, 1, 26>>, <<11264, 11311, 1, 48>>, <<11360, 11360, 1, 1>>,
      <<11362, 11362, 1, -10743>>, <<11363, 11363, 1, -3814>>, <<11364, 11364, 1, -10727>>,
      <<11367, 11371, 2, 1>>, <<11373, 11373, 1, -10780>>, <<11374, 11374, 1, -10749>>,
      <<11375, 11375, 1, -10783>>, <<11376, 11376, 1, -10782>>, <<11378, 11378, 1, 1>>,
      <<11381, 11381, 1, 1>>, <<11390, 11391, 1, -10815>>, <<11392, 11490, 2, 1>>,
      <<11499, 11501, 2, 1>>, <<11506, 11506, 1, 1>>, <<42560, 42604, 2, 1>>,
      <<42624, 42650, 2, 1>>, <<42786, 42798, 2, 1>>, <<42802, 42862, 2, 1>>,
      <<42873, 42875, 2, 1>>, <<42877, 42877, 1, -35332>>, <<42878, 42886, 2, 1>>,
      <<42891, 42891, 1, 1>>, <<42893, 42893, 1, -42280>>, <<42896, 42898, 2, 1>>,
      <<42902, 42920, 2, 1>>, <<42922, 42922, 1, -42308>>, <<42923, 42923, 1, -42319>>,
      <<42924, 42924, 1, -42315>>, <<42925, 42925, 1, -42305>>, <<42926, 42926, 1, -42308>>,
      <<42928, 42928, 1, -42258>>, <<42929, 42929, 1, -42282>>, <<42930, 42930, 1, -42261>>,
      <<42931, 42931, 1, 928>>, <<42932, 42946, 2, 1>>, <<42948, 42948, 1, -48>>,
      <<42949, 42949, 1, -42307>>, <<42950, 42950, 1, -35384>>, <<42951, 42953, 2, 1>>,
      <<42955, 42955, 1, -42343>>, <<42956, 42970, 2, 1>>, <<42972, 42972, 1, -42561>>,
      <<42997, 42997, 1, 1>>, <<65313, 65338, 1, 32>>, <<66560, 66599, 1, 40>>,
      <<66736, 66771, 1, 40>>, <<66928, 66938, 1, 39>>, <<66940, 66954, 1, 39>>,
      <<66956, 66962, 1, 39>>, <<66964, 66965, 1, 39>>, <<68736, 68786, 1, 64>>,
      <<68944, 68965, 1, 32>>, <<71840, 71871, 1, 32>>, <<93760, 93791, 1, 32>>,
      <<93856, 93880, 1, 27>>, <<125184, 125217, 1, 34>> }

\* The code points that are cased letters and not case-ignorable, as <<first,
\* last>>.
CasedRanges ==
    { <<65, 90>>, <<97, 122>>, <<170, 170>>, <<181, 181>>, <<186, 186>>,
      <<192, 214>>, <<216, 246>>, <<248, 442>>, <<444, 447>>, <<452, 659>>,
      <<662, 687>>, <<880, 883>>, <<886, 887>>, <<891, 893>>, <<895, 895>>,
      <<902, 902>>, <<904, 906>>, <<908, 908>>, <<910, 929>>, <<931, 1013>>,
      <<1015, 1153>>, <<1162, 1327>>, <<1329, 1366>>, <<1376, 1416>>, <<4256, 4293>>,
      <<4295, 4295>>, <<4301, 4301>>, <<4304, 4346>>, <<4349, 4351>>, <<5024, 5109>>,
      <<5112, 5117>>, <<7296, 7306>>, <<7312, 7354>>, <<7357, 7359>>, <<7424, 7467>>,
      <<7531, 7543>>, <<7545, 7578>>, <<7680, 7957>>, <<7960, 7965>>, <<7968, 8005>>,
      <<8008, 8013>>, <<8016, 8023>>, <<8025, 8025>>, <<8027, 8027>>, <<8029, 8029>>,
      <<8031, 8061>>, <<8064, 8116>>, <<8118, 8124>>, <<8126, 8126>>, <<8130, 8132>>,
      <<8134, 8140>>, <<8144, 8147>>, <<8150, 8155>>, <<8160, 8172>>, <<8178, 8180>>,
      <<8182, 8188>>, <<8450, 8450>>, <<8455, 8455>>, <<8458, 8467>>, <<8469, 8469>>,
      <<8473, 8477>>, <<8484, 8484>>, <<8486, 8486>>, <<8488, 8488>>, <<8490, 8493>>,
      <<8495, 8500>>, <<8505, 8505>>, <<8508, 8511>>, <<8517, 8521>>, <<8526, 8526>>,
      <<8544, 8575>>, <<8579, 8580>>, <<9398, 9449>>, <<11264, 11387>>, <<11390, 11492>>,
      <<11499, 11502>>, <<11506, 11507>>, <<11520, 11557>>, <<11559, 11559>>, <<11565, 11565>>,
      <<42560, 42605>>, <<42624, 42651>>, <<42786, 42863>>, <<42865, 42887>>, <<42891, 42894>>,
      <<42896, 42972>>, <<42997, 42998>>, <<43002, 43002>>, <<43824, 43866>>, <<43872, 43880>>,
      <<43888, 43967>>, <<64256, 64262>>, <<64275, 64279>>, <<65313, 65338>>, <<65345, 65370>>,
      <<66560, 66639>>, <<66736, 66771>>, <<66776, 66811>>, <<66928, 66938>>, <<66940, 66954>>,
      <<66956, 66962>>, <<66964, 66965>>, <<66967, 66977>>, <<66979, 66993>>, <<66995, 67001>>,
      <<67003, 67004>>, <<68736, 68786>>, <<68800, 68850>>, <<68944, 68965>>, <<68976, 68997>>,
      <<71840, 71903>>, <<93760, 93823>>, <<93856, 93880>>, <<93883, 93907>>, <<119808, 119892>>,
      <<119894, 119964>>, <<119966, 119967>>, <<119970, 119970>>, <<119973, 119974>>, <<119977, 119980>>,
      <<119982, 119993>>, <<119995, 119995>>, <<119997, 120003>>, <<120005, 120069>>, <<120071, 120074>>,
      <<120077, 120084>>, <<120086, 120092>>, <<120094, 120121>>, <<120123, 120126>>, <<120128, 120132>>,
      <<120134, 120134>>, <<120138, 120144>>, <<120146, 120485>>, <<120488, 120512>>, <<120514, 120538>>,
      <<120540, 120570>>, <<120572, 120596>>, <<120598, 120628>>, <<120630, 120654>>, <<120656, 120686>>,
      <<120688, 120712>>, <<120714, 120744>>, <<120746, 120770>>, <<120772, 120779>>, <<122624, 122633>>,
      <<122635, 122654>>, <<122661, 122666>>, <<125184, 125251>>, <<127280, 127305>>, <<127312, 127337>>,
      <<127344, 127369>> }

\* The case-ignorable code points, as <<first, last>>.
CaseIgnorableRanges ==
    { <<39, 39>>, <<46, 46>>, <<58, 58>>, <<94, 94>>, <<96, 96>>,
      <<168, 168>>, <<173, 173>>, <<175, 175>>, <<180, 180>>, <<183, 184>>,
      <<688, 879>>, <<884, 885>>, <<890, 890>>, <<900, 901>>, <<903, 903>>,
      <<1155, 1161>>, <<1369, 1369>>, <<1375, 1375>>, <<1425, 1469>>, <<1471, 1471>>,
      <<1473, 1474>>, <<1476, 1477>>, <<1479, 1479>>, <<1524, 1524>>, <<1536, 1541>>,
      <<1552, 1562>>, <<1564, 1564>>, <<1600, 1600>>, <<1611, 1631>>, <<1648, 1648>>,
      <<1750, 1757>>, <<1759, 1768>>, <<1770, 1773>>, <<1807, 1807>>, <<1809, 1809>>,
      <<1840, 1866>>, <<1958, 1968>>, <<2027, 2037>>, <<2042, 2042>>, <<2045, 2045>>,
      <<2070, 2093>>, <<2137, 2139>>, <<2184, 2184>>, <<2192, 2193>>, <<2199, 2207>>,
      <<2249, 2306>>, <<2362, 2362>>, <<2364, 2364>>, <<2369, 2376>>, <<2381, 2381>>,
      <<2385, 2391>>, <<2402, 2403>>, <<2417, 2417>>, <<2433, 2433>>, <<2492, 2492>>,
      <<2497, 2500>>, <<2509, 2509>>, <<2530, 2531>>, <<2558, 2558>>, <<2561, 2562>>,
      <<2620, 2620>>, <<2625, 2626>>, <<2631, 2632>>, <<2635, 2637>>, <<2641, 2641>>,
      <<2672, 2673>>, <<2677, 2677>>, <<2689, 2690>>, <<2748, 2748>>, <<2753, 2757>>,
      <<2759, 2760>>, <<2765, 2765>>, <<2786, 2787>>, <<2810, 2815>>, <<2817, 2817>>,
      <<2876, 2876>>, <<2879, 2879>>, <<2881, 2884>>, <<2893, 2893>>, <<2901, 2902>>,
      <<2914, 2915>>, <<2946, 2946>>, <<3008, 3008>>, <<3021, 3021>>, <<3072, 3072>>,
      <<3076, 3076>>, <<3132, 3132>>, <<3134, 3136>>, <<3142, 3144>>, <<3146, 3149>>,
      <<3157, 3158>>, <<3170, 3171>>, <<3201, 3201>>, <<3260, 3260>>, <<3263, 3263>>,
      <<3270, 3270>>, <<3276, 3277>>, <<3298, 3299>>, <<3328, 3329>>, <<3387, 3388>>,
      <<3393, 3396>>, <<3405, 3405>>, <<3426, 3427>>, <<3457, 3457>>, <<3530, 3530>>,
      <<3538, 3540>>, <<3542, 3542>>, <<3633, 3633>>, <<3636, 3642>>, <<3654, 3662>>,
      <<3761, 3761>>, <<3764, 3772>>, <<3782, 3782>>, <<3784, 3790>>, <<3864, 3865>>,
      <<3893, 3893>>, <<3895, 3895>>, <<3897, 3897>>, <<3953, 3966>>, <<3968, 3972>>,
      <<3974, 3975>>, <<3981, 3991>>, <<3993, 4028>>, <<4038, 4038>>, <<4141, 4144>>,
      <<4146, 4151>>, <<4153, 4154>>, <<4157, 4158>>, <<4184, 4185>>, <<4190, 4192>>,
      <<4209, 4212>>, <<4226, 4226>>, <<4229, 4230>>, <<4237, 4237>>, <<4253, 4253>>,
      <<4348, 4348>>, <<4957, 4959>>, <<5906, 5908>>, <<5938, 5939>>, <<5970, 5971>>,
      <<6002, 6003>>, <<6068, 6069>>, <<6071, 6077>>, <<6086, 6086>>, <<6089, 6099>>,
      <<6103, 6103>>, <<6109, 6109>>, <<6155, 6159>>, <<6211, 6211>>, <<6277, 6278>>,
      <<6313, 6313>>, <<6432, 6434>>, <<6439, 6440>>, <<6450, 6450>>, <<6457, 6459>>,
      <<6679, 6680>>, <<6683, 6683>>, <<6742, 6742>>, <<6744, 6750>>, <<6752, 6752>>,
      <<6754, 6754>>, <<6757, 6764>>, <<6771, 6780>>, <<6783, 6783>>, <<6823, 6823>>,
      <<6832, 6877>>, <<6880, 6891>>, <<6912, 6915>>, <<6964, 6964>>, <<6966, 6970>>,
      <<6972, 6972>>, <<6978, 6978>>, <<7019, 7027>>, <<7040, 7041>>, <<7074, 7077>>,
      <<7080, 7081>>, <<7083, 7085>>, <<7142, 7142>>, <<7144, 7145>>, <<7149, 7149>>,
      <<7151, 7153>>, <<7212, 7219>>, <<7222, 7223>>, <<7288, 7293>>, <<7376, 7378>>,
      <<7380, 7392>>, <<7394, 7400>>, <<7405, 7405>>, <<7412, 7412>>, <<7416, 7417>>,
      <<7468, 7530>>, <<7544, 7544>>, <<7579, 7679>>, <<8125, 8125>>, <<8127, 8129>>,
      <<8141, 8143>>, <<8157, 8159>>, <<8173, 8175>>, <<8189, 8190>>, <<8203, 8207>>,
      <<8216, 8217>>, <<8228, 8228>>, <<8231, 8231>>, <<8234, 8238>>, <<8288, 8292>>,
      <<8294, 8303>>, <<8305, 8305>>, <<8319, 8319>>, <<8336, 8348>>, <<8400, 8432>>,
      <<11388, 11389>>, <<11503, 11505>>, <<11631, 11631>>, <<11647, 11647>>, <<11744, 11775>>,
      <<11823, 11823>>, <<12293, 12293>>, <<12330, 12333>>, <<12337, 12341>>, <<12347, 12347>>,
      <<12441, 12446>>, <<12540, 12542>>, <<40981, 40981>>, <<42232, 42237>>, <<42508, 42508>>,
      <<42607, 42610>>, <<42612, 42621>>, <<42623, 42623>>, <<42652, 42655>>, <<42736, 42737>>,
      <<42752, 42785>>, <<42864, 42864>>, <<42888, 42890>>, <<42993, 42996>>, <<43000, 43001>>,
      <<43010, 43010>>, <<43014, 43014>>, <<43019, 43019>>, <<43045, 43046>>, <<43052, 43052>>,
      <<43204, 43205>>, <<43232, 43249>>, <<43263, 43263>>, <<43302, 43309>>, <<43335, 43345>>,
      <<43392, 43394>>, <<43443, 43443>>, <<43446, 43449>>, <<43452, 43453>>, <<43471, 43471>>,
      <<43493, 43494>>, <<43561, 43566>>, <<43569, 43570>>, <<43573, 43574>>, <<43587, 43587>>,
      <<43596, 43596>>, <<43632, 43632>>, <<43644, 43644>>, <<43696, 43696>>, <<43698, 43700>>,
      <<43703, 43704>>, <<43710, 43711>>, <<43713, 43713>>, <<43741, 43741>>, <<43756, 43757>>,
      <<43763, 43764>>, <<43766, 43766>>, <<43867, 43871>>, <<43881, 43883>>, <<44005, 44005>>,
      <<44008, 44008>>, <<44013, 44013>>, <<64286, 64286>>, <<64434, 64450>>, <<65024, 65039>>,
      <<65043, 65043>>, <<65056, 65071>>, <<65106, 65106>>, <<65109, 65109>>, <<65279, 65279>>,
      <<65287, 65287>>, <<65294, 65294>>, <<65306, 65306>>, <<65342, 65342>>, <<65344, 65344>>,
      <<65392, 65392>>, <<65438, 65439>>, <<65507, 65507>>, <<65529, 65531>>, <<66045, 66045>>,
      <<66272, 66272>>, <<66422, 66426>>, <<67456, 67461>>, <<67463, 67504>>, <<67506, 67514>>,
      <<68097, 68099>>, <<68101, 68102>>, <<68108, 68111>>, <<68152, 68154>>, <<68159, 68159>>,
      <<68325, 68326>>, <<68900, 68903>>, <<68942, 68942>>, <<68969, 68973>>, <<68975, 68975>>,
      <<69291, 69292>>, <<69317, 69317>>, <<69370, 69375>>, <<69446, 69456>>, <<69506, 69509>>,
      <<69633, 69633>>, <<69688, 69702>>, <<69744, 69744>>, <<69747, 69748>>, <<69759, 69761>>,
      <<69811, 69814>>, <<69817, 69818>>, <<69821, 69821>>, <<69826, 69826>>, <<69837, 69837>>,
      <<69888, 69890>>, <<69927, 69931>>, <<69933, 69940>>, <<70003, 70003>>, <<70016, 70017>>,
      <<70070, 70078>>, <<70089, 70092>>, <<70095, 70095>>, <<70191, 70193>>, <<70196, 70196>>,
      <<70198, 70199>>, <<70206, 70206>>, <<70209, 70209>>, <<70367, 70367>>, <<70371, 70378>>,
      <<70400, 70401>>, <<70459, 70460>>, <<70464, 70464>>, <<70502, 70508>>, <<70512, 70516>>,
      <<70587, 70592>>, <<70606, 70606>>, <<70608, 70608>>, <<70610, 70610>>, <<70625, 70626>>,
      <<70712, 70719>>, <<70722, 70724>>, <<70726, 70726>>, <<70750, 70750>>, <<70835, 70840>>,
      <<70842, 70842>>, <<70847, 70848>>, <<70850, 70851>>, <<71090, 71093>>, <<71100, 71101>>,
      <<71103, 71104>>, <<71132, 71133>>, <<71219, 71226>>, <<71229, 71229>>, <<71231, 71232>>,
      <<71339, 71339>>, <<71341, 71341>>, <<71344, 71349>>, <<71351, 71351>>, <<71453, 71453>>,
      <<71455, 71455>>, <<71458, 71461>>, <<71463, 71467>>, <<71727, 71735>>, <<71737, 71738>>,
      <<71995, 71996>>, <<71998, 71998>>, <<72003, 72003>>, <<72148, 72151>>, <<72154, 72155>>,
      <<72160, 72160>>, <<72193, 72202>>, <<72243, 72248>>, <<72251, 72254>>, <<72263, 72263>>,
      <<72273, 72278>>, <<72281, 72283>>, <<72330, 72342>>, <<72344, 72345>>, <<72544, 72544>>,
      <<72546, 72548>>, <<72550, 72550>>, <<72752, 72758>>, <<72760, 72765>>, <<72767, 72767>>,
      <<72850, 72871>>, <<72874, 72880>>, <<72882, 72883>>, <<72885, 72886>>, <<73009, 73014>>,
      <<73018, 73018>>, <<73020, 73021>>, <<73023, 73029>>, <<73031, 73031>>, <<73104, 73105>>,
      <<73109, 73109>>, <<73111, 73111>>, <<73177, 73177>>, <<73459, 73460>>, <<73472, 73473>>,
      <<73526, 73530>>, <<73536, 73536>>, <<73538, 73538>>, <<73562, 73562>>, <<78896, 78912>>,
      <<78919, 78933>>, <<90398, 90409>>, <<90413, 90415>>, <<92912, 92916>>, <<92976, 92982>>,
      <<92992, 92995>>, <<93504, 93506>>, <<93547, 93548>>, <<94031, 94031>>, <<94095, 94111>>,
      <<94176, 94177>>, <<94179, 94180>>, <<94194, 94195>>, <<110576, 110579>>, <<110581, 110587>>,
      <<110589, 110590>>, <<113821, 113822>>, <<113824, 113827>>, <<118528, 118573>>, <<118576, 118598>>,
      <<119143, 119145>>, <<119155, 119170>>, <<119173, 119179>>, <<119210, 119213>>, <<119362, 119364>>,
      <<121344, 121398>>, <<121403, 121452>>, <<121461, 121461>>, <<121476, 121476>>, <<121499, 121503>>,
      <<121505, 121519>>, <<122880, 122886>>, <<122888, 122904>>, <<122907, 122913>>, <<122915, 122916>>,
      <<122918, 122922>>, <<122928, 122989>>, <<123023, 123023>>, <<123184, 123197>>, <<123566, 123566>>,
      <<123628, 123631>>, <<124139, 124143>>, <<124398, 124399>>, <<124643, 124643>>, <<124646, 124646>>,
      <<124654, 124655>>, <<124661, 124661>>, <<124671, 124671>>, <<125136, 125142>>, <<125252, 125259>>,
      <<127995, 127999>>, <<917505, 917505>>, <<917536, 917631>>, <<917760, 917999>> }

Cased(cp) == \E r \in CasedRanges : cp >= r[1] /\ cp <= r[2]
CaseIgnorable(cp) == \E r \in CaseIgnorableRanges : cp >= r[1] /\ cp <= r[2]

\* The code points of a string: a high surrogate followed by a low one is one
\* code point, every other code unit stands for itself.
RECURSIVE PointsOf(_, _)
PointsOf(s, i) ==
    IF i > Len(s) THEN <<>>
    ELSE IF /\ i < Len(s)
            /\ s[i] \in 55296..56319
            /\ s[i + 1] \in 56320..57343
         THEN <<65536 + (s[i] - 55296) * 1024 + (s[i + 1] - 56320)>>
              \o PointsOf(s, i + 2)
    ELSE <<s[i]>> \o PointsOf(s, i + 1)

\* Final_Sigma: the nearest character before the capital sigma at position i
\* that is not case-ignorable is a cased letter, and the nearest one after it
\* that is not case-ignorable, if there is one, is not.
FinalSigma(p, i) ==
    /\ \E j \in 1..(i - 1) :
          /\ Cased(p[j])
          /\ \A k \in (j + 1)..(i - 1) : CaseIgnorable(p[k])
    /\ ~\E j \in (i + 1)..Len(p) :
          /\ Cased(p[j])
          /\ \A k \in (i + 1)..(j - 1) : CaseIgnorable(p[k])

\* What the code point at position i of p lowers to.
LowerPoint(p, i) ==
    IF p[i] < 128 THEN (IF p[i] \in 65..90 THEN <<p[i] + 32>> ELSE <<p[i]>>)
    ELSE IF p[i] = 931 THEN (IF FinalSigma(p, i) THEN <<962>> ELSE <<963>>)
    ELSE IF p[i] = 304 THEN <<105, 775>>
    ELSE IF \E r \in LowerRanges :
                p[i] >= r[1] /\ p[i] <= r[2] /\ (p[i] - r[1]) % r[3] = 0
         THEN <<p[i] + (CHOOSE r \in LowerRanges :
                            /\ p[i] >= r[1] /\ p[i] <= r[2]
                            /\ (p[i] - r[1]) % r[3] = 0)[4]>>
    ELSE <<p[i]>>

RECURSIVE LowerFrom(_, _)
LowerFrom(p, i) ==
    IF i > Len(p) THEN <<>>
    ELSE (IF Len(LowerPoint(p, i)) = 2 THEN LowerPoint(p, i)
          ELSE UnitsOf(LowerPoint(p, i)[1]))
         \o LowerFrom(p, i + 1)

\* String.prototype.toLowerCase: the default lowercase conversion of Unicode,
\* code point by code point.  ASCII text lowers letter by letter.
ToLowerCase(s) ==
    IF \A i \in 1..Len(s) : s[i] < 128
    THEN [i \in 1..Len(s) |-> IF s[i] \in 65..90 THEN s[i] + 32 ELSE s[i]]
    ELSE LowerFrom(PointsOf(s, 1), 1)

\* The number of bytes the UTF-8 sequence led by b has; 0 if b leads none.
Utf8Needed(b) ==
    IF b < 128 THEN 1
    ELSE IF b \in 194..223 THEN 2
    ELSE IF b \in 224..239 THEN 3
    ELSE IF b \in 240..244 THEN 4
    ELSE 0

\* Whether the byte k places after the lead byte at i continues its sequence.
Utf8Good(bytes, i, k) ==
    /\ i + k <= Len(bytes)
    /\ IF k > 1 THEN bytes[i + k] \in 128..191
       ELSE /\ bytes[i + k] >= (IF bytes[i] = 224 THEN 160
                                ELSE IF bytes[i] = 240 THEN 144 ELSE 128)
            /\ bytes[i + k] <= (IF bytes[i] = 237 THEN 159
                                ELSE IF bytes[i] = 244 THEN 143 ELSE 191)

\* How many bytes after the lead byte at i continue its sequence of n bytes.
Utf8Taken(bytes, i, n) ==
    Cardinality({ k \in 1..(n - 1) : \A j \in 1..k : Utf8Good(bytes, i, j) })

\* The code point of the n-byte sequence at i.
Utf8Point(bytes, i, n) ==
    IF n = 1 THEN bytes[i]
    ELSE IF n = 2 THEN (bytes[i] - 192) * 64 + (bytes[i + 1] - 128)
    ELSE IF n = 3 THEN (bytes[i] - 224) * 4096 + (bytes[i + 1] - 128) * 64
                       + (bytes[i + 2] - 128)
    ELSE (bytes[i] - 240) * 262144 + (bytes[i + 1] - 128) * 4096
         + (bytes[i + 2] - 128) * 64 + (bytes[i + 3] - 128)

\* The UTF-8 decoder from position i: a malformed sequence gives one U+FFFD for
\* its lead byte and the continuation bytes accepted so far.
RECURSIVE DecodeFrom(_, _)
DecodeFrom(bytes, i) ==
    IF i > Len(bytes) THEN <<>>
    ELSE IF Utf8Needed(bytes[i]) = 0 THEN <<65533>> \o DecodeFrom(bytes, i + 1)
    ELSE IF Utf8Taken(bytes, i, Utf8Needed(bytes[i])) = Utf8Needed(bytes[i]) - 1
    THEN UnitsOf(Utf8Point(bytes, i, Utf8Needed(bytes[i])))
         \o DecodeFrom(bytes, i + Utf8Needed(bytes[i]))
    ELSE <<65533>>
         \o DecodeFrom(bytes, i + 1 + Utf8Taken(bytes, i, Utf8Needed(bytes[i])))

\* text without a leading byte order mark
WithoutBom(text) ==
    IF Len(text) > 0 /\ text[1] = 65279 THEN SubSeq(text, 2, Len(text)) ELSE text

\* new TextDecoder().decode(bytes), and what File.text() does with a file's bytes.
\* ASCII bytes decode to themselves.
TextDecode(bytes) ==
    IF \A i \in 1..Len(bytes) : bytes[i] < 128 THEN bytes
    ELSE WithoutBom(DecodeFrom(bytes, 1))

----------------------------------------------------------------------------
(* The Decryptor component: components/Decryptor.tsx *)

textExtensions ==
    { <<46, 116, 120, 116>>, <<46, 109, 100>>, <<46, 106, 115, 111, 110>>,
      <<46, 120, 109, 108>>, <<46, 104, 116, 109, 108>>, <<46, 99, 115, 115>>,
      <<46, 106, 115>>, <<46, 116, 115>>, <<46, 112, 121>>, <<46, 114, 98>>,
      <<46, 106, 97, 118, 97>>, <<46, 103, 111>>, <<46, 114, 115>>, <<46, 99>>,
      <<46, 99, 112, 112>>, <<46, 104>>, <<46, 104, 112, 112>>, <<46, 115, 104>>,
      <<46, 108, 111, 103>> }

\* isTextFile(filename), lines 15-19, where filename is the JavaScript value that
\* metadata.filename holds.  Calling toLowerCase on anything but a string throws
\* a TypeError (ok = FALSE).
isTextFile(filename) ==
    IF filename.t # "string" THEN [ok |-> FALSE, is |-> FALSE]
    ELSE [ok |-> TRUE,
          is |-> \E ext \in textExtensions : EndsWith(ToLowerCase(filename.s), ext)]

\* decryptedContent: null, or the ArrayBuffer held (an empty one is still held).
NoContent == [some |-> FALSE, bytes |-> <<>>]
\* decryptionInfo: null, or { metadata, decryptedAt, decryptedBy }.
NoInfo == [some |-> FALSE, metadata |-> NoMeta, decryptedAt |-> <<>>,
           decryptedBy |-> <<>>]
\* What a handleDecrypt call holds while it runs: the opFile, keyFile and password
\* of the render it was created in, and the results of its awaits so far.
NoRun == [opFile |-> NoFile, keyFile |-> NoFile, password |-> <<>>,
          opFileContent |-> <<>>, keyFileContent |-> <<>>, fileKey |-> NoKey,
          metadata |-> NoMeta]

\* Lines 22-30.  at: where the running handleDecrypt stands ("idle" when none
\* runs); shownFrom: the files the held content was decrypted from.
DecInit ==
    [opFile |-> NoFile, keyFile |-> NoFile, password |-> <<>>,
     status |-> Status("info",
                       "Select your .op file and its corresponding .key.json file."),
     isLoading |-> FALSE, decryptedContent |-> NoContent, decryptionInfo |-> NoInfo,
     decryptedText |-> <<>>, isCopied |-> FALSE,
     at |-> "idle", run |-> NoRun, shownFrom |-> <<NoFile, NoFile>>,
     copies |-> 0, writes |-> {}, timers |-> <<>>, copiedBy |-> 0]

\* resetState that keeps the decrypted content and its info
resetState_KeepsContent(d) ==
    [d EXCEPT !.decryptedText = <<>>, !.status = NoStatus, !.isCopied = FALSE]

\* resetState(), lines 32-38
resetState(d) ==
    [d EXCEPT !.decryptedContent = NoContent, !.decryptionInfo = NoInfo,
              !.decryptedText = <<>>, !.status = NoStatus, !.isCopied = FALSE]

\* handleOpFileChange(selectedFile), lines 40-48
handleOpFileChange(d, selectedFile) ==
    IF selectedFile.some /\ ~EndsWith(selectedFile.name, <<46, 111, 112>>)
    THEN [d EXCEPT !.status = Status("error",
                                     "Invalid file type. Please select a .op file."),
                   !.opFile = NoFile]
    ELSE resetState([d EXCEPT !.opFile = selectedFile])

\* handleKeyFileChange(selectedFile), lines 50-58
handleKeyFileChange(d, selectedFile) ==
    IF /\ selectedFile.some
       /\ ~EndsWith(selectedFile.name, <<46, 107, 101, 121, 46, 106, 115, 111, 110>>)
    THEN [d EXCEPT !.status = Status("error",
                                     "Invalid file type. Please select a .key.json file."),
                   !.keyFile = NoFile]
    ELSE resetState([d EXCEPT !.keyFile = selectedFile])

\* handleDecrypt up to its first await, lines 61-71
handleDecrypt(d) ==
    IF ~d.opFile.some \/ ~d.keyFile.some \/ d.password = <<>>
    THEN [d EXCEPT !.status = Status("error",
                                     "Please select both files and enter the password.")]
    ELSE [resetState([d EXCEPT !.isLoading = TRUE]) EXCEPT
              !.status = Status("info", "Decrypting key and file... Please wait."),
              !.at = "reading",
              !.run = [NoRun EXCEPT !.opFile = d.opFile, !.keyFile = d.keyFile,
                                    !.password = d.password]]

\* The catch block without the finally block
DecryptFailed_StillLoading(d, message) ==
    [d EXCEPT !.status = Status("error",
                                IF message = "" THEN "Decryption failed." ELSE message),
              !.at = "idle", !.run = NoRun]

\* Lines 90-95: the catch and finally blocks, for an error with this message
DecryptFailed(d, message) ==
    [d EXCEPT !.status = Status("error",
                                IF message = "" THEN "Decryption failed." ELSE message),
              !.isLoading = FALSE, !.at = "idle", !.run = NoRun]

\* Lines 84-89 and 93-95, where textFile is what isTextFile returned
DecryptShown(d, content, textFile) ==
    IF ~textFile.ok THEN DecryptFailed(d, "TypeError")
    ELSE [d EXCEPT !.decryptedText = IF textFile.is THEN TextDecode(content) ELSE @,
                   !.status = Status("success",
                                     "File decrypted successfully! See details below."),
                   !.isLoading = FALSE, !.at = "idle", !.run = NoRun]

\* Lines 77-95 without the setDecryptionInfo call of lines 78-82
DecryptSucceeded_NoInfo(d, content, now, userAgent) ==
    DecryptShown([d EXCEPT !.decryptedContent = [some |-> TRUE, bytes |-> content],
                           !.shownFrom = <<d.run.opFile, d.run.keyFile>>],
                 content, isTextFile(d.run.metadata.filename))

\* Lines 77-95, where content is what decryptFile resolved to
DecryptSucceeded(d, content, now, userAgent) ==
    DecryptShown([d EXCEPT !.decryptedContent = [some |-> TRUE, bytes |-> content],
                           !.decryptionInfo = [some |-> TRUE,
                                               metadata |-> d.run.metadata,
                                               decryptedAt |-> now,
                                               decryptedBy |-> userAgent],
                           !.shownFrom = <<d.run.opFile, d.run.keyFile>>],
                 content, isTextFile(d.run.metadata.filename))

\* record with the filename taken out of its metadata
WithoutFilename(record) ==
    JObj([i \in 1..Len(record.m) |->
            IF record.m[i].k = <<109>>
            THEN Member(<<109>>, WithoutMember(record.m[i].v, <<102>>))
            ELSE record.m[i]])

\* The files a user has to pick from for the .op input: each encrypted file the
\* service produced, the same with its last byte changed, and the same under a
\* name that does not end in ".op".
OpFileChoices ==
    UNION { { UiFile(<<102, 46, 111, 112>>, <<>>, f.env),
              UiFile(<<102, 46, 111, 112>>, <<>>, Tamper(f.env, Len(f.env), 0)),
              UiFile(<<102, 46, 116, 120, 116>>, <<>>, f.env) }
          : f \in FilesHeld }

\* The same for the key input: each key file the service wrote, in either build's
\* format; an obfuscated one also with no filename in its metadata and under a
\* name that does not end in ".key.json".
KeyFileChoices ==
    UNION { { UiFile(<<102, 46, 107, 101, 121, 46, 106, 115, 111, 110>>, <<>>,
                     BlobOf(kf.text)) }
            \cup (IF kf.variant = "obfuscated"
                  THEN { UiFile(<<102, 46, 107, 101, 121, 46, 106, 115, 111, 110>>, <<>>,
                                BlobOf(btoa(Stringify(WithoutFilename(RecordOf(kf)),
                                                      0, 0).s).s)),
                         UiFile(<<102, 46, 106, 115, 111, 110>>, <<>>, BlobOf(kf.text)) }
                  ELSE {})
          : kf \in KeyFilesHeld }

\* What a user types into a component's password input: "pw", a high surrogate
\* alone, or nothing.
TypedPasswords == { <<112, 119>>, <<55357>>, <<>> }

\* The .op input with no disabled attribute
SelectOpFile_WhileLoading ==
    /\ mode = "DECRYPT"
    /\ \E selectedFile \in OpFileChoices \cup {NoFile} :
          dec' = handleOpFileChange(dec, selectedFile)
    /\ UNCHANGED <<rng, sealed, encLog, directs, fileKeys, files, keyFiles, pending, last>>
    /\ UNCHANGED <<enc, encDirect, downloads, mode, gone>>

\* The .op input's change event, lines 127-132; the input is disabled while
\* isLoading.  Cancelling the picker hands null.
SelectOpFile ==
    /\ mode = "DECRYPT"
    /\ ~dec.isLoading
    /\ \E selectedFile \in OpFileChoices \cup {NoFile} :
          dec' = handleOpFileChange(dec, selectedFile)
    /\ UNCHANGED <<rng, sealed, encLog, directs, fileKeys, files, keyFiles, pending, last>>
    /\ UNCHANGED <<enc, encDirect, downloads, mode, gone>>

\* The key input's change event, lines 133-138, for a user who picks one of
\* `choices`; the input is disabled while isLoading.
SelectKeyFileFrom(choices) ==
    /\ mode = "DECRYPT"
    /\ ~dec.isLoading
    /\ \E selectedFile \in choices : dec' = handleKeyFileChange(dec, selectedFile)
    /\ UNCHANGED <<rng, sealed, encLog, directs, fileKeys, files, keyFiles, pending, last>>
    /\ UNCHANGED <<enc, encDirect, downloads, mode, gone>>

SelectKeyFile == SelectKeyFileFrom(KeyFileChoices \cup {NoFile})

\* The password input's change event, lines 140-145
TypePassword ==
    /\ mode = "DECRYPT"
    /\ ~dec.isLoading
    /\ \E value \in TypedPasswords :
          /\ value # dec.password
          /\ dec' = [dec EXCEPT !.password = value]
    /\ UNCHANGED <<rng, sealed, encLog, directs, fileKeys, files, keyFiles, pending, last>>
    /\ UNCHANGED <<enc, encDirect, downloads, mode, gone>>

\* A click on "Decrypt File" with a button that stays enabled while loading
ClickDecrypt_WhileLoading ==
    /\ mode = "DECRYPT"
    /\ dec.opFile.some /\ dec.keyFile.some /\ dec.password # <<>>
    /\ dec' = handleDecrypt(dec)
    /\ UNCHANGED <<rng, sealed, encLog, directs, fileKeys, files, keyFiles, pending, last>>
    /\ UNCHANGED <<enc, encDirect, downloads, mode, gone>>

\* A click on "Decrypt File", lines 146-152: the button is disabled unless both
\* files and a password are there and nothing is loading.
ClickDecrypt ==
    /\ mode = "DECRYPT"
    /\ dec.opFile.some /\ dec.keyFile.some /\ dec.password # <<>> /\ ~dec.isLoading
    /\ dec' = handleDecrypt(dec)
    /\ UNCHANGED <<rng, sealed, encLog, directs, fileKeys, files, keyFiles, pending, last>>
    /\ UNCHANGED <<enc, encDirect, downloads, mode, gone>>

\* The steps of a running handler are written for the component it was
\* created in: 0 is the component on screen, i > 0 the i-th of `gone`.
DecAt(i) == IF i = 0 THEN dec ELSE gone[i].st

\* Whether calls of this Decryptor's handlers are running or a timeout is pending.
DecBusy(d) == d.at # "idle" \/ d.writes # {} \/ d.timers # <<>>

\* What the running calls of a Decryptor off the screen hold.  React drops the
\* state updates of an unmounted component, so nothing else of it is left.
DecDetached(d) ==
    [DecInit EXCEPT !.at = d.at, !.run = d.run, !.writes = d.writes,
                    !.timers = d.timers]

\* The sequence s without its i-th element
Without(s, i) == SubSeq(s, 1, i - 1) \o SubSeq(s, i + 1, Len(s))

\* The components of this kind in `gone`
GoneOf(comp) == { i \in 1..Len(gone) : gone[i].comp = comp }

\* The state updates of a step that leaves the Decryptor i as d: they reach the
\* component on screen, and are dropped for one off the screen, which is
\* forgotten once nothing of it runs.
DecBecomes(i, d) ==
    IF i = 0 THEN dec' = d /\ gone' = gone
    ELSE /\ dec' = dec
         /\ gone' = IF DecBusy(d) THEN [gone EXCEPT ![i].st = DecDetached(d)]
                    ELSE Without(gone, i)

\* Line 71: opFile.arrayBuffer() is rejected; or it resolves and keyFile.text()
\* is called (line 72).
DecryptReadAt(i) ==
    /\ DecAt(i).at = "reading"
    /\ \/ DecBecomes(i, DecryptFailed(DecAt(i), "NotReadableError"))
       \/ DecBecomes(i, [DecAt(i) EXCEPT !.at = "readingKey",
                                         !.run.opFileContent = DecAt(i).run.opFile.data])
    /\ UNCHANGED <<rng, sealed, encLog, directs, fileKeys, files, keyFiles, pending, last>>
    /\ UNCHANGED <<enc, encDirect, downloads, mode>>

DecryptRead == DecryptReadAt(0)

\* Line 72: keyFile.text() is rejected; or it resolves and importAndDecryptKey is
\* called (line 74).
DecryptReadKeyAt(i) ==
    /\ DecAt(i).at = "readingKey"
    /\ \/ DecBecomes(i, DecryptFailed(DecAt(i), "NotReadableError"))
       \/ DecBecomes(i, [DecAt(i) EXCEPT
                            !.at = "importing",
                            !.run.keyFileContent = TextDecode(DecAt(i).run.keyFile.data)])
    /\ UNCHANGED <<rng, sealed, encLog, directs, fileKeys, files, keyFiles, pending, last>>
    /\ UNCHANGED <<enc, encDirect, downloads, mode>>

DecryptReadKey == DecryptReadKeyAt(0)

\* Line 74: the platform rejects a call importAndDecryptKey makes inside its try
\* block, which its catch block reports as the key decryption error; or the
\* function runs to its end.
DecryptUnwrapAt(i) ==
    /\ DecAt(i).at = "importing"
    /\ \/ DecBecomes(i, DecryptFailed(DecAt(i), KeyError))
       \/ \E r \in {importAndDecryptKey(DecAt(i).run.keyFileContent,
                                         DecAt(i).run.password, sealed)} :
              DecBecomes(i, IF r.ok
                            THEN [DecAt(i) EXCEPT !.at = "decrypting",
                                                  !.run.fileKey = r.key,
                                                  !.run.metadata = r.meta]
                            ELSE DecryptFailed(DecAt(i), r.err))
    /\ UNCHANGED <<rng, sealed, encLog, directs, fileKeys, files, keyFiles, pending, last>>
    /\ UNCHANGED <<enc, encDirect, downloads, mode>>

DecryptUnwrap == DecryptUnwrapAt(0)

\* Lines 75-95: the platform rejects subtle.decrypt, which decryptFile's catch
\* block reports as the file decryption error; or decryptFile runs to its end.
DecryptOpenAt(i) ==
    /\ DecAt(i).at = "decrypting"
    /\ \/ DecBecomes(i, DecryptFailed(DecAt(i), "File decryption failed. The key may be incorrect for this file."))
       \/ \E r \in {decryptFile(DecAt(i).run.opFileContent, DecAt(i).run.fileKey,
                                sealed)},
             now \in Nows, userAgent \in UserAgents :
              DecBecomes(i, IF r.ok
                            THEN DecryptSucceeded(DecAt(i), r.out, now, userAgent)
                            ELSE DecryptFailed(DecAt(i), r.err))
    /\ UNCHANGED <<rng, sealed, encLog, directs, fileKeys, files, keyFiles, pending, last>>
    /\ UNCHANGED <<enc, encDirect, downloads, mode>>

DecryptOpen == DecryptOpenAt(0)

----------------------------------------------------------------------------
(* Copy to clipboard: Decryptor.tsx lines 111-121.  The handleCopy calls are
   numbered in the order they start.  copies: how many have started; writes:
   the calls waiting for navigator.clipboard.writeText; timers: the calls whose
   2.5 s timeout is pending, oldest first (the delays are equal, so they fire in
   the order they were set); copiedBy: the call that last set isCopied. *)

\* handleCopy calls the model follows.
MaxCopies == 2

\* handleCopy up to its await, lines 112-114
handleCopy(d) ==
    IF d.decryptedText = <<>> \/ d.isCopied THEN d
    ELSE [d EXCEPT !.copies = @ + 1, !.writes = @ \cup {d.copies + 1}]

\* Lines 115-116, once writeText has resolved for call k
CopyResolved(d, k) ==
    [d EXCEPT !.writes = @ \ {k}, !.isCopied = TRUE, !.copiedBy = k,
              !.timers = Append(@, k)]

\* Lines 117-120, once writeText has rejected for call k
CopyRejected(d, k) ==
    [d EXCEPT !.writes = @ \ {k},
              !.status = Status("error", "Failed to copy text to clipboard.")]

\* The timeout callback of line 116, for the oldest pending timeout
CopyTimeout(d) ==
    [d EXCEPT !.isCopied = FALSE, !.timers = Tail(@)]

\* A click on "Copy to Clipboard", lines 185-193: the button is rendered when
\* the output panel (line 155) and decryptedText (line 185) are, and is disabled
\* while isCopied.
ClickCopy ==
    /\ mode = "DECRYPT"
    /\ dec.decryptedContent.some /\ dec.decryptionInfo.some
    /\ dec.decryptedText # <<>>
    /\ ~dec.isCopied
    /\ dec.copies < MaxCopies
    /\ dec' = handleCopy(dec)
    /\ UNCHANGED <<rng, sealed, encLog, directs, fileKeys, files, keyFiles, pending, last>>
    /\ UNCHANGED <<enc, encDirect, downloads, mode, gone>>

\* navigator.clipboard.writeText settles for one waiting call, line 114
CopyWrittenAt(i) ==
    /\ \E k \in DecAt(i).writes :
          \/ DecBecomes(i, CopyRejected(DecAt(i), k))
          \/ DecBecomes(i, CopyResolved(DecAt(i), k))
    /\ UNCHANGED <<rng, sealed, encLog, directs, fileKeys, files, keyFiles, pending, last>>
    /\ UNCHANGED <<enc, encDirect, downloads, mode>>

CopyWritten == CopyWrittenAt(0)

\* The oldest pending timeout fires, line 116
CopyTimerAt(i) ==
    /\ DecAt(i).timers # <<>>
    /\ DecBecomes(i, CopyTimeout(DecAt(i)))
    /\ UNCHANGED <<rng, sealed, encLog, directs, fileKeys, files, keyFiles, pending, last>>
    /\ UNCHANGED <<enc, encDirect, downloads, mode>>

CopyTimer == CopyTimerAt(0)

\* A step of a handler call of a Decryptor that is off the screen
GoneDecryptor ==
    \E i \in GoneOf("Decryptor") :
        \/ DecryptReadAt(i)
        \/ DecryptReadKeyAt(i)
        \/ DecryptUnwrapAt(i)
        \/ DecryptOpenAt(i)
        \/ CopyWrittenAt(i)
        \/ CopyTimerAt(i)

----------------------------------------------------------------------------
(* The key-wrap Encryptor component: unnamed/part_002 lines 102-207 *)

\* Runs of handleEncrypt the model follows.
MaxRuns == 2

\* What a handleEncrypt call holds while it runs: the file and password of the
\* render it was created in, the results of its awaits so far, and the seeds of
\* what the service calls it waits for drew (0: not drawn yet).
NoEncRun == [file |-> NoFile, password |-> <<>>, content |-> <<>>,
             fileKey |-> NoKey, encryptedContent |-> <<>>, encryptedKeyJson |-> <<>>,
             ivSeed |-> 0, saltSeed |-> 0, keyIvSeed |-> 0]

\* Lines 103-106.  at: where the running handleEncrypt stands ("idle" when none
\* runs); runs: how many were started; calls: the service calls the component
\* made, each with its run, the key it returned or was given, and whether it
\* resolved.
EncInit ==
    [file |-> NoFile, password |-> <<>>,
     status |-> Status("info",
                "Select a .txt file and set a password to protect its encryption key."),
     isLoading |-> FALSE, at |-> "idle", run |-> NoEncRun, runs |-> 0, calls |-> <<>>]

\* handleFileChange(selectedFile), lines 108-116
handleFileChange(e, selectedFile) ==
    IF /\ selectedFile.some
       /\ selectedFile.type # <<116, 101, 120, 116, 47, 112, 108, 97, 105, 110>>
    THEN [e EXCEPT !.status = Status("error",
                                     "Invalid file type. Please select a .txt file."),
                   !.file = NoFile]
    ELSE [e EXCEPT !.file = selectedFile, !.status = NoStatus]

\* handleEncrypt up to reader.readAsArrayBuffer(file), lines 118-181
handleEncrypt(e) ==
    IF ~e.file.some \/ e.password = <<>>
    THEN [e EXCEPT !.status =
              Status("error",
                     "Please select a file and enter a password to protect the key.")]
    ELSE [e EXCEPT !.isLoading = TRUE,
                   !.status = Status("info",
                       "Generating key and encrypting file... Please wait."),
                   !.at = "reading", !.runs = @ + 1,
                   !.run = [NoEncRun EXCEPT !.file = e.file, !.password = e.password]]

\* The component's record of one service call
EncCall(e, op, key, ok) == [run |-> e.runs, op |-> op, key |-> key, ok |-> ok]

\* The catch and finally blocks that report a rejected call as a success
EncryptFailed_Success(e, op) ==
    [e EXCEPT !.status = Status("success",
                  "Success! Your encrypted file and key file are downloading. Keep both files safe!"),
              !.isLoading = FALSE, !.password = <<>>, !.at = "idle",
              !.run = NoEncRun, !.calls = Append(@, EncCall(e, op, e.run.fileKey, FALSE))]

\* Lines 169-175: the catch and finally blocks, after the service call op rejected
EncryptFailed(e, op) ==
    [e EXCEPT !.status = Status("error", "Encryption failed. Please try again."),
              !.isLoading = FALSE, !.password = <<>>, !.at = "idle",
              !.run = NoEncRun, !.calls = Append(@, EncCall(e, op, e.run.fileKey, FALSE))]

\* file.name.replace(/\.txt$/, '')
originalFilename(name) ==
    IF EndsWith(name, <<46, 116, 120, 116>>) THEN SubSeq(name, 1, Len(name) - 4)
    ELSE name

\* One triggered download: the run that triggered it, the name and the bytes.
Download(e, suffix, data) ==
    [run |-> e.runs, name |-> originalFilename(e.run.file.name) \o suffix,
     data |-> data]

\* The files a user has to pick from: a text file for each plaintext, and a file
\* that is not text/plain.
EncFileChoices ==
    { UiFile(<<97, 46, 116, 120, 116>>,
             <<116, 101, 120, 116, 47, 112, 108, 97, 105, 110>>, pt) : pt \in Plaintexts }
    \cup { UiFile(<<97, 46, 98, 105, 110>>,
                  <<97, 112, 112, 108, 105, 99, 97, 116, 105, 111, 110, 47, 111, 99,
                    116, 101, 116, 45, 115, 116, 114, 101, 97, 109>>,
                  <<104, 105>>) }

\* The file input's change event, lines 186-190; disabled while isLoading.
EncSelectFile ==
    /\ mode = "ENCRYPT"
    /\ ~enc.isLoading
    /\ \E selectedFile \in EncFileChoices \cup {NoFile} :
          enc' = handleFileChange(enc, selectedFile)
    /\ UNCHANGED <<rng, sealed, encLog, directs, fileKeys, files, keyFiles, pending, last>>
    /\ UNCHANGED <<dec, encDirect, downloads, mode, gone>>

\* The password input's change event, lines 191-196
EncTypePassword ==
    /\ mode = "ENCRYPT"
    /\ ~enc.isLoading
    /\ \E value \in TypedPasswords :
          /\ value # enc.password
          /\ enc' = [enc EXCEPT !.password = value]
    /\ UNCHANGED <<rng, sealed, encLog, directs, fileKeys, files, keyFiles, pending, last>>
    /\ UNCHANGED <<dec, encDirect, downloads, mode, gone>>

\* A click on "Encrypt & Download Files", lines 197-203: the button is disabled
\* unless a file and a password are there and nothing is loading.
ClickEncrypt ==
    /\ mode = "ENCRYPT"
    /\ enc.file.some /\ enc.password # <<>> /\ ~enc.isLoading
    /\ enc.runs < MaxRuns
    /\ enc' = handleEncrypt(enc)
    /\ UNCHANGED <<rng, sealed, encLog, directs, fileKeys, files, keyFiles, pending, last>>
    /\ UNCHANGED <<dec, encDirect, downloads, mode, gone>>

\* The Encryptor a running handleEncrypt was created in: 0 is the one on screen,
\* i > 0 the i-th of `gone`.  The record of the service calls made is one for all.
EncAt(i) == IF i = 0 THEN enc ELSE [gone[i].st EXCEPT !.calls = enc.calls]

\* What the running handleEncrypt of an Encryptor off the screen holds
EncDetached(e) == [EncInit EXCEPT !.at = e.at, !.run = e.run, !.runs = e.runs]

\* The state updates of a step that leaves the Encryptor i as e
EncBecomes(i, e) ==
    IF i = 0 THEN enc' = e /\ gone' = gone
    ELSE /\ enc' = [enc EXCEPT !.calls = e.calls]
         /\ gone' = IF e.at # "idle" THEN [gone EXCEPT ![i].st = EncDetached(e)]
                    ELSE Without(gone, i)

\* The reader's load event, lines 129-135: generateFileKey() is called; or its
\* error event (lines 177-180).
EncryptReadAt(i) ==
    /\ EncAt(i).at = "reading"
    /\ \/ EncBecomes(i, [EncAt(i) EXCEPT !.at = "generating",
                                         !.run.content = EncAt(i).run.file.data])
       \/ EncBecomes(i, [EncAt(i) EXCEPT !.status = Status("error", "Error reading file."),
                                         !.isLoading = FALSE, !.at = "idle",
                                         !.run = NoEncRun])
    /\ UNCHANGED <<rng, sealed, encLog, directs, fileKeys, files, keyFiles, pending, last>>
    /\ UNCHANGED <<dec, encDirect, downloads, mode>>

EncryptRead == EncryptReadAt(0)

\* Lines 135-136: the platform rejects generateFileKey(); or it resolves and
\* encryptFile(content, fileKey) is called, which draws the IV and calls
\* subtle.encrypt (cryptoService.ts lines 261-266).
EncryptGenerateAt(i) ==
    /\ EncAt(i).at = "generating"
    /\ \/ /\ EncBecomes(i, EncryptFailed(EncAt(i), "generateFileKey"))
          /\ UNCHANGED <<rng, sealed, encLog, fileKeys>>
       \/ /\ EncBecomes(i, [EncAt(i) EXCEPT
                               !.at = "encrypting",
                               !.run.fileKey = generateFileKey(rng + 1),
                               !.run.ivSeed = rng + 2,
                               !.calls = Append(@, EncCall(EncAt(i), "generateFileKey",
                                                           generateFileKey(rng + 1),
                                                           TRUE))])
          /\ fileKeys' = Append(fileKeys, generateFileKey(rng + 1))
          /\ sealed' = sealed \cup {Sealing(generateFileKey(rng + 1), FileIv(rng + 2),
                                            EncAt(i).run.content)}
          /\ encLog' = Append(encLog, [key |-> generateFileKey(rng + 1),
                                       iv |-> FileIv(rng + 2),
                                       draw |-> rng + 2, by |-> "encryptFile"])
          /\ rng' = rng + 2
    /\ UNCHANGED <<directs, files, keyFiles, pending, last>>
    /\ UNCHANGED <<dec, encDirect, downloads, mode>>

EncryptGenerate == EncryptGenerateAt(0)

\* Lines 136-137: the platform rejects the subtle.encrypt of encryptFile; or it
\* resolves, encryptFile returns the envelope and exportEncryptedKey(fileKey,
\* password) is called, which calls subtle.exportKey.
EncryptContentAt(i) ==
    /\ EncAt(i).at = "encrypting"
    /\ \/ /\ EncBecomes(i, EncryptFailed(EncAt(i), "encryptFile"))
          /\ UNCHANGED files
       \/ \E env \in {encryptFile(EncAt(i).run.content, EncAt(i).run.fileKey,
                                  EncAt(i).run.ivSeed)} :
              /\ EncBecomes(i, [EncAt(i) EXCEPT
                                   !.at = "exporting", !.run.encryptedContent = env,
                                   !.calls = Append(@, EncCall(EncAt(i), "encryptFile",
                                                               EncAt(i).run.fileKey,
                                                               TRUE))])
              /\ files' = Append(files, [pt |-> EncAt(i).run.content,
                                         key |-> EncAt(i).run.fileKey, env |-> env])
    /\ UNCHANGED <<rng, sealed, encLog, directs, fileKeys, keyFiles, pending, last>>
    /\ UNCHANGED <<dec, encDirect, downloads, mode>>

EncryptContent == EncryptContentAt(0)

\* cryptoService.ts lines 327-332: the platform rejects subtle.exportKey; or it
\* resolves, the salt and the IV are drawn and deriveKeyEncryptionKey is called.
EncryptExportAt(i) ==
    /\ EncAt(i).at = "exporting"
    /\ \/ /\ EncBecomes(i, EncryptFailed(EncAt(i), "exportEncryptedKey"))
          /\ UNCHANGED rng
       \/ /\ EncBecomes(i, [EncAt(i) EXCEPT !.at = "deriving", !.run.saltSeed = rng + 1,
                                            !.run.keyIvSeed = rng + 2])
          /\ rng' = rng + 2
    /\ UNCHANGED <<sealed, encLog, directs, fileKeys, files, keyFiles, pending, last>>
    /\ UNCHANGED <<dec, encDirect, downloads, mode>>

EncryptExport == EncryptExportAt(0)

\* cryptoService.ts lines 332-338: the platform rejects the derivation; or the
\* key-encryption key is there and subtle.encrypt is called.
EncryptDerivedAt(i) ==
    /\ EncAt(i).at = "deriving"
    /\ \/ /\ EncBecomes(i, EncryptFailed(EncAt(i), "exportEncryptedKey"))
          /\ UNCHANGED <<sealed, encLog>>
       \/ /\ EncBecomes(i, [EncAt(i) EXCEPT !.at = "sealing"])
          /\ WrapEffects(EncAt(i).run.fileKey, EncAt(i).run.password,
                         EncAt(i).run.saltSeed, EncAt(i).run.keyIvSeed,
                         "exportEncryptedKeyJson")
    /\ UNCHANGED <<rng, directs, fileKeys, files, keyFiles, pending, last>>
    /\ UNCHANGED <<dec, encDirect, downloads, mode>>

EncryptDerived == EncryptDerivedAt(0)

\* Lines 137-160: the platform rejects the subtle.encrypt of exportEncryptedKey;
\* or it resolves, exportEncryptedKey returns the text and the .op file is
\* downloaded.
EncryptSealedAt(i) ==
    /\ EncAt(i).at = "sealing"
    /\ \/ /\ EncBecomes(i, EncryptFailed(EncAt(i), "exportEncryptedKey"))
          /\ UNCHANGED <<keyFiles, downloads>>
       \/ \E text \in {exportEncryptedKeyJson(EncAt(i).run.fileKey,
                                             EncAt(i).run.password,
                                             EncAt(i).run.saltSeed,
                                             EncAt(i).run.keyIvSeed)} :
              /\ EncBecomes(i, [EncAt(i) EXCEPT
                                   !.at = "pausing", !.run.encryptedKeyJson = text,
                                   !.calls = Append(@, EncCall(EncAt(i),
                                                               "exportEncryptedKey",
                                                               EncAt(i).run.fileKey,
                                                               TRUE))])
              /\ keyFiles' = Append(keyFiles,
                                 [variant |-> "json", key |-> EncAt(i).run.fileKey,
                                  pw |-> EncAt(i).run.password, name |-> <<>>,
                                  at |-> <<>>, by |-> <<>>, text |-> text])
              /\ downloads' = Append(downloads,
                                     Download(EncAt(i), <<46, 111, 112>>,
                                              EncAt(i).run.encryptedContent))
    /\ UNCHANGED <<rng, sealed, encLog, directs, fileKeys, files, pending, last>>
    /\ UNCHANGED <<dec, encDirect, mode>>

EncryptSealed == EncryptSealedAt(0)

\* Lines 161-175: the delay is over, the key file is downloaded and the run ends.
EncryptFinishAt(i) ==
    /\ EncAt(i).at = "pausing"
    /\ downloads' = Append(downloads,
                           Download(EncAt(i),
                                    <<46, 107, 101, 121, 46, 106, 115, 111, 110>>,
                                    BlobOf(EncAt(i).run.encryptedKeyJson)))
    /\ EncBecomes(i, [EncAt(i) EXCEPT
                         !.status = Status("success",
                             "Success! Your encrypted file and key file are downloading. Keep both files safe!"),
                         !.isLoading = FALSE, !.password = <<>>, !.at = "idle",
                         !.run = NoEncRun])
    /\ UNCHANGED <<rng, sealed, encLog, directs, fileKeys, files, keyFiles, pending, last>>
    /\ UNCHANGED <<dec, encDirect, mode>>

EncryptFinish == EncryptFinishAt(0)

\* A step of the handleEncrypt call of an Encryptor that is off the screen
GoneEncryptor ==
    \E i \in GoneOf("Encryptor") :
        \/ EncryptReadAt(i)
        \/ EncryptGenerateAt(i)
        \/ EncryptContentAt(i)
        \/ EncryptExportAt(i)
        \/ EncryptDerivedAt(i)
        \/ EncryptSealedAt(i)
        \/ EncryptFinishAt(i)

----------------------------------------------------------------------------
(* The password-direct Encryptor component: unnamed/part_002 lines 8-92 *)

\* What a handleEncrypt call of this component holds while it runs, with the
\* seeds of the salt and the IV its encryptFile call drew.
NoDirectRun == [file |-> NoFile, password |-> <<>>, content |-> <<>>,
                saltSeed |-> 0, ivSeed |-> 0]

\* Lines 9-12.  at: where the running handleEncrypt stands ("idle" when none
\* runs); runs: how many were started.
EncDirectInit ==
    [file |-> NoFile, password |-> <<>>,
     status |-> Status("info", "Select a .txt file to encrypt into a secure .op file."),
     isLoading |-> FALSE, at |-> "idle", run |-> NoDirectRun, runs |-> 0]

\* handleEncrypt up to reader.readAsArrayBuffer(file), lines 24-66
handleEncryptDirect(e) ==
    IF ~e.file.some \/ e.password = <<>>
    THEN [e EXCEPT !.status = Status("error",
                                     "Please select a file and enter a password.")]
    ELSE [e EXCEPT !.isLoading = TRUE,
                   !.status = Status("info", "Encrypting file... Please wait."),
                   !.at = "reading", !.runs = @ + 1,
                   !.run = [NoDirectRun EXCEPT !.file = e.file,
                                               !.password = e.password]]

\* Lines 53-60: the end of reader.onload, with the status it sets
EncryptDirectEnded(e, type, message) ==
    [e EXCEPT !.status = Status(type, message), !.isLoading = FALSE,
              !.password = <<>>, !.at = "idle", !.run = NoDirectRun]

\* The file input's change event, lines 71-75 and 14-22 (handleFileChange is the
\* same in both Encryptors); disabled while isLoading.
DirectSelectFile ==
    /\ mode = "ENCRYPT"
    /\ ~encDirect.isLoading
    /\ \E selectedFile \in EncFileChoices \cup {NoFile} :
          encDirect' = handleFileChange(encDirect, selectedFile)
    /\ UNCHANGED <<rng, sealed, encLog, directs, fileKeys, files, keyFiles, pending, last>>
    /\ UNCHANGED <<dec, enc, downloads, mode, gone>>

\* The password input's change event, lines 76-81
DirectTypePassword ==
    /\ mode = "ENCRYPT"
    /\ ~encDirect.isLoading
    /\ \E value \in TypedPasswords :
          /\ value # encDirect.password
          /\ encDirect' = [encDirect EXCEPT !.password = value]
    /\ UNCHANGED <<rng, sealed, encLog, directs, fileKeys, files, keyFiles, pending, last>>
    /\ UNCHANGED <<dec, enc, downloads, mode, gone>>

\* A click on "Encrypt & Download", lines 82-88
DirectClickEncrypt ==
    /\ mode = "ENCRYPT"
    /\ encDirect.file.some /\ encDirect.password # <<>> /\ ~encDirect.isLoading
    /\ encDirect.runs < MaxRuns
    /\ encDirect' = handleEncryptDirect(encDirect)
    /\ UNCHANGED <<rng, sealed, encLog, directs, fileKeys, files, keyFiles, pending, last>>
    /\ UNCHANGED <<dec, enc, downloads, mode, gone>>

\* The password-direct Encryptor a running handleEncrypt was created in
DirectAt(i) == IF i = 0 THEN encDirect ELSE gone[i].st

\* What the running handleEncrypt of such an Encryptor off the screen holds
DirectDetached(e) == [EncDirectInit EXCEPT !.at = e.at, !.run = e.run, !.runs = e.runs]

\* The state updates of a step that leaves the password-direct Encryptor i as e
DirectBecomes(i, e) ==
    IF i = 0 THEN encDirect' = e /\ gone' = gone
    ELSE /\ encDirect' = encDirect
         /\ gone' = IF e.at # "idle" THEN [gone EXCEPT ![i].st = DirectDetached(e)]
                    ELSE Without(gone, i)

\* The reader's load event, lines 34-40: encryptFile(content, password) is
\* called, which draws the salt and the IV and calls deriveKey (cryptoService.ts
\* lines 425-431); or its error event (lines 62-65).
DirectReadAt(i) ==
    /\ DirectAt(i).at = "reading"
    /\ \/ /\ DirectBecomes(i, [DirectAt(i) EXCEPT
                                  !.at = "deriving",
                                  !.run.content = DirectAt(i).run.file.data,
                                  !.run.saltSeed = rng + 1,
                                  !.run.ivSeed = rng + 2])
          /\ rng' = rng + 2
       \/ /\ DirectBecomes(i, [DirectAt(i) EXCEPT
                                  !.status = Status("error", "Error reading file."),
                                  !.isLoading = FALSE, !.at = "idle",
                                  !.run = NoDirectRun])
          /\ UNCHANGED rng
    /\ UNCHANGED <<sealed, encLog, directs, fileKeys, files, keyFiles, pending, last>>
    /\ UNCHANGED <<dec, enc, downloads, mode>>

DirectRead == DirectReadAt(0)

\* cryptoService.ts lines 431-436: the platform rejects the derivation; or the
\* key is there and subtle.encrypt is called.
DirectDerivedAt(i) ==
    /\ DirectAt(i).at = "deriving"
    /\ \/ /\ DirectBecomes(i, EncryptDirectEnded(DirectAt(i), "error",
                                                 "Encryption failed. Please try again."))
          /\ UNCHANGED <<sealed, encLog>>
       \/ /\ DirectBecomes(i, [DirectAt(i) EXCEPT !.at = "encrypting"])
          /\ sealed' = sealed \cup
                 {Sealing(deriveKey(DirectAt(i).run.password,
                                    PwdSalt(DirectAt(i).run.saltSeed)),
                          PwdIv(DirectAt(i).run.ivSeed), DirectAt(i).run.content)}
          /\ encLog' = Append(encLog,
                           [key |-> deriveKey(DirectAt(i).run.password,
                                              PwdSalt(DirectAt(i).run.saltSeed)),
                            iv |-> PwdIv(DirectAt(i).run.ivSeed),
                            draw |-> DirectAt(i).run.ivSeed,
                            by |-> "encryptFilePassword"])
    /\ UNCHANGED <<rng, directs, fileKeys, files, keyFiles, pending, last>>
    /\ UNCHANGED <<dec, enc, downloads, mode>>

DirectDerived == DirectDerivedAt(0)

\* Lines 40-60: the platform rejects the subtle.encrypt of encryptFile; or it
\* resolves, encryptFile returns the envelope and the .op file is downloaded.
DirectEncryptAt(i) ==
    /\ DirectAt(i).at = "encrypting"
    /\ \/ /\ DirectBecomes(i, EncryptDirectEnded(DirectAt(i), "error",
                                                 "Encryption failed. Please try again."))
          /\ UNCHANGED <<directs, downloads>>
       \/ \E env \in {encryptFilePassword(DirectAt(i).run.content,
                                          DirectAt(i).run.password,
                                          DirectAt(i).run.saltSeed,
                                          DirectAt(i).run.ivSeed)} :
              /\ directs' = Append(directs, [pt |-> DirectAt(i).run.content,
                                             pw |-> DirectAt(i).run.password,
                                             env |-> env])
              /\ downloads' = Append(downloads,
                                 [run |-> DirectAt(i).runs,
                                  name |-> originalFilename(DirectAt(i).run.file.name)
                                           \o <<46, 111, 112>>,
                                  data |-> env])
              /\ DirectBecomes(i, EncryptDirectEnded(DirectAt(i), "success",
                                     "File encrypted and download started successfully!"))
    /\ UNCHANGED <<rng, sealed, encLog, fileKeys, files, keyFiles, pending, last>>
    /\ UNCHANGED <<dec, enc, mode>>

DirectEncrypt == DirectEncryptAt(0)

\* A step of the handleEncrypt call of such an Encryptor that is off the screen
GoneEncryptorDirect ==
    \E i \in GoneOf("EncryptorDirect") :
        \/ DirectReadAt(i)
        \/ DirectDerivedAt(i)
        \/ DirectEncryptAt(i)

----------------------------------------------------------------------------
(* App: cryptoService.ts lines 480-519 *)

\* App renders <Encryptor /> in the mode ENCRYPT and <Decryptor /> in the mode
\* DECRYPT (line 510); components/Encryptor is the key-wrap Encryptor in one
\* build and the password-direct one in the other.  A component that is no
\* longer rendered is unmounted: its state is dropped, and rendered again it
\* starts from its initial state.  The handler calls that were running go on to
\* their end, their state updates without effect.

\* What is left of the components of the current mode when they are taken off
\* the screen
Left ==
    IF mode = "DECRYPT"
    THEN IF DecBusy(dec) THEN <<[comp |-> "Decryptor", st |-> DecDetached(dec)]>>
         ELSE <<>>
    ELSE (IF enc.at # "idle"
          THEN <<[comp |-> "Encryptor", st |-> EncDetached(enc)]>> ELSE <<>>)
         \o (IF encDirect.at # "idle"
             THEN <<[comp |-> "EncryptorDirect", st |-> DirectDetached(encDirect)]>>
             ELSE <<>>)

\* A click on a tab, lines 497-508: setMode(m).  Setting the mode that is set
\* changes nothing; another mode takes the components of the current one off
\* the screen and mounts those of the other.  `runs` and `calls` number and
\* record the handleEncrypt runs of a whole session.
SetMode ==
    /\ \E m \in {"ENCRYPT", "DECRYPT"} :
          /\ mode' = m
          /\ IF m = mode THEN UNCHANGED <<dec, enc, encDirect, gone>>
             ELSE /\ gone' = gone \o Left
                  /\ Len(gone') <= MaxGone
                  /\ dec' = DecInit
                  /\ enc' = [EncInit EXCEPT !.runs = enc.runs, !.calls = enc.calls]
                  /\ encDirect' = [EncDirectInit EXCEPT !.runs = encDirect.runs]
    /\ UNCHANGED <<rng, sealed, encLog, directs, fileKeys, files, keyFiles, pending, last>>
    /\ UNCHANGED downloads

----------------------------------------------------------------------------
(* Specifications *)

Init ==
    /\ rng = 0
    /\ sealed = {}
    /\ encLog = <<>>
    /\ directs = <<>>
    /\ fileKeys = <<>>
    /\ files = <<>>
    /\ keyFiles = <<>>
    /\ pending = <<>>
    /\ last = Call("init")
    /\ dec = DecInit
    /\ enc = EncInit
    /\ encDirect = EncDirectInit
    /\ downloads = <<>>
    /\ mode = "ENCRYPT"
    /\ gone = <<>>

Next ==
    \/ EncryptDirect
    \/ EncryptDirectDerived
    \/ EncryptDirectDone
    \/ DecryptDirect
    \/ DecryptDirectDerived
    \/ DecryptDirectDone
    \/ GenerateFileKey
    \/ EncryptWithKey
    \/ EncryptWithKeyDone
    \/ ExportKey
    \/ ExportKeyJson
    \/ WrapDrawn
    \/ WrapDerived
    \/ ExportKeyDone
    \/ ExportKeyJsonDone
    \/ DecryptWithKey
    \/ DecryptWithKeyDone
    \/ ImportKey
    \/ ImportKeyJson
    \/ ImportKeyDerived
    \/ ImportKeyUnsealed
    \/ ImportKeyDone
    \/ SelectOpFile
    \/ SelectKeyFile
    \/ TypePassword
    \/ ClickDecrypt
    \/ DecryptRead
    \/ DecryptReadKey
    \/ DecryptUnwrap
    \/ DecryptOpen
    \/ EncSelectFile
    \/ EncTypePassword
    \/ ClickEncrypt
    \/ EncryptRead
    \/ EncryptGenerate
    \/ EncryptContent
    \/ EncryptExport
    \/ EncryptDerived
    \/ EncryptSealed
    \/ EncryptFinish
    \/ DirectSelectFile
    \/ DirectTypePassword
    \/ DirectClickEncrypt
    \/ DirectRead
    \/ DirectDerived
    \/ DirectEncrypt
    \/ ClickCopy
    \/ CopyWritten
    \/ CopyTimer
    \/ SetMode
    \/ GoneDecryptor
    \/ GoneEncryptor
    \/ GoneEncryptorDirect

Spec == Init /\ [][Next]_vars

\* No result of a decrypting or importing call stands in `last`.
Quiet == last.op \notin {"decryptFilePassword", "decryptFile",
                         "importAndDecryptKey", "importAndDecryptKeyJson"}

\* A decrypting or importing call is in flight.
Decrypting ==
    \E i \in 1..Len(pending) :
        pending[i].op \in {"decryptFilePassword", "decryptFile",
                          "importAndDecryptKey", "importAndDecryptKeyJson"}

\* No result of a decrypting or importing call stands in `last`, and none is in
\* flight.
Idle == Quiet /\ ~Decrypting

\* No result of a decrypting or importing call stands in `last`, and no call is
\* in flight.
Still == Quiet /\ pending = <<>>

\* The password-direct service alone.  One decrypting call is in flight at a
\* time, made where no result of one stands in `last` (Idle); the encrypting
\* calls start and go on at every await of it.
NextDirect ==
    \/ EncryptDirect
    \/ EncryptDirectDerived
    \/ EncryptDirectDone
    \/ Idle /\ DecryptDirect
    \/ DecryptDirectDerived
    \/ DecryptDirectDone

SpecDirect == Init /\ [][NextDirect]_vars

\* The specifications below, up to SpecDecrypt, follow a caller that awaits a
\* decrypting or importing call before anything else goes on, and makes one
\* where no result of one stands in `last`: SpecFiles in any state where none is
\* in flight (Idle), between two awaits of an encrypting call included; SpecWrap
\* and SpecDecrypt where no call at all is in flight (Still).  The encrypting
\* calls make their next step when it has settled.  The steps of encrypting
\* calls that fall between the awaits of a decrypting call, and the steps that
\* lead from one result to the next, are those of SpecDirect and of Spec.

\* Encrypted files of both modes and their decryption.
NextFiles ==
    \/ Idle /\ EncryptDirect
    \/ Idle /\ EncryptDirectDerived
    \/ Idle /\ EncryptDirectDone
    \/ Idle /\ DecryptDirect
    \/ DecryptDirectDerived
    \/ DecryptDirectDone
    \/ Idle /\ GenerateFileKey
    \/ Idle /\ EncryptWithKey
    \/ Idle /\ EncryptWithKeyDone
    \/ Idle /\ DecryptWithKey
    \/ DecryptWithKeyDone

SpecFiles == Init /\ [][NextFiles]_vars

\* The key-wrap service with the key files of both variants.
NextWrap ==
    \/ Idle /\ GenerateFileKey
    \/ Idle /\ EncryptWithKey
    \/ Idle /\ EncryptWithKeyDone
    \/ Idle /\ ExportKey
    \/ Idle /\ ExportKeyJson
    \/ Idle /\ WrapDrawn
    \/ Idle /\ WrapDerived
    \/ Idle /\ ExportKeyDone
    \/ Idle /\ ExportKeyJsonDone
    \/ Still /\ ImportKey
    \/ Still /\ ImportKeyJson
    \/ ImportKeyDerived
    \/ ImportKeyUnsealed
    \/ ImportKeyDone
    \/ Still /\ DecryptWithKey
    \/ DecryptWithKeyDone

SpecWrap == Init /\ [][NextWrap]_vars

\* Every operation that calls the cipher's encrypt.
NextEncrypt ==
    \/ EncryptDirect
    \/ EncryptDirectDerived
    \/ EncryptDirectDone
    \/ GenerateFileKey
    \/ EncryptWithKey
    \/ EncryptWithKeyDone
    \/ ExportKey
    \/ ExportKeyJson
    \/ WrapDrawn
    \/ WrapDerived
    \/ ExportKeyDone
    \/ ExportKeyJsonDone

SpecEncrypt == Init /\ [][NextEncrypt]_vars

\* No call of the password-direct service was made.
NoDirectCall ==
    directs = <<>> /\ \A i \in 1..Len(pending) : pending[i].op # "encryptFilePassword"

\* The decrypting operations of the password-direct service and of the key-wrap
\* service of lines 1-210.  They are two builds of cryptoService.ts: a run uses
\* one of them.
NextDecrypt ==
    \/ Idle /\ fileKeys = <<>> /\ EncryptDirect
    \/ Idle /\ EncryptDirectDerived
    \/ Idle /\ EncryptDirectDone
    \/ Still /\ fileKeys = <<>> /\ DecryptDirect
    \/ DecryptDirectDerived
    \/ DecryptDirectDone
    \/ Idle /\ NoDirectCall /\ GenerateFileKey
    \/ Idle /\ EncryptWithKey
    \/ Idle /\ EncryptWithKeyDone
    \/ Idle /\ ExportKey
    \/ Idle /\ WrapDrawn
    \/ Idle /\ WrapDerived
    \/ Idle /\ ExportKeyDone
    \/ Still /\ DecryptWithKey
    \/ DecryptWithKeyDone
    \/ Still /\ ImportKey
    \/ ImportKeyDerived
    \/ ImportKeyUnsealed
    \/ ImportKeyDone

SpecDecrypt == Init /\ [][NextDecrypt]_vars

\* Nothing of a Decryptor is there: none is on screen and no call of one runs.
NoDecryptor == mode = "ENCRYPT" /\ gone = <<>>

\* The files of a Decryptor session, made by the service of lines 1-210, one
\* call after the other, while no Decryptor is there.
SetupKey == NoDecryptor /\ fileKeys = <<>> /\ GenerateFileKey
SetupFile ==
    \/ NoDecryptor /\ files = <<>> /\ pending = <<>> /\ EncryptWithKey
    \/ NoDecryptor /\ EncryptWithKeyDone
SetupKeyFile ==
    \/ NoDecryptor /\ keyFiles = <<>> /\ pending = <<>> /\ ExportKey
    \/ NoDecryptor /\ WrapDrawn
    \/ NoDecryptor /\ WrapDerived
    \/ NoDecryptor /\ ExportKeyDone

\* No handler call of a component on screen is running.
Calm == ~DecBusy(dec) /\ enc.at = "idle" /\ encDirect.at = "idle"

\* The specifications below, up to SpecComponents, are Next cut down to the
\* sessions named: they follow a user who clicks a tab while nothing runs
\* (Calm), so that a component is taken off the screen with no call left
\* behind.  SpecDecryptorTabs and SpecTabs follow one who clicks a tab while a
\* handler runs.

\* A Decryptor session over one encrypted file and its key file.
NextDecryptor ==
    \/ SetupKey
    \/ SetupFile
    \/ SetupKeyFile
    \/ SelectOpFile
    \/ SelectKeyFile
    \/ TypePassword
    \/ ClickDecrypt
    \/ DecryptRead
    \/ DecryptReadKey
    \/ DecryptUnwrap
    \/ DecryptOpen
    \/ Calm /\ SetMode

SpecDecryptor == Init /\ [][NextDecryptor]_vars

\* The Decryptor with its copy button, for a user who types "pw" or empties
\* the password box.
NextCopy ==
    \/ SetupKey
    \/ SetupFile
    \/ SetupKeyFile
    \/ SelectOpFile
    \/ SelectKeyFile
    \/ TypePassword /\ dec'.password # <<55357>>
    \/ ClickDecrypt
    \/ DecryptRead
    \/ DecryptReadKey
    \/ DecryptUnwrap
    \/ DecryptOpen
    \/ ClickCopy
    \/ CopyWritten
    \/ CopyTimer
    \/ Calm /\ SetMode

SpecCopy == Init /\ [][NextCopy]_vars

\* The key-wrap Encryptor on its own.
NextEncryptor ==
    \/ EncSelectFile
    \/ EncTypePassword
    \/ ClickEncrypt
    \/ EncryptRead
    \/ EncryptGenerate
    \/ EncryptContent
    \/ EncryptExport
    \/ EncryptDerived
    \/ EncryptSealed
    \/ EncryptFinish
    \/ Calm /\ SetMode

SpecEncryptor == Init /\ [][NextEncryptor]_vars

\* The password-direct Encryptor on its own.
NextEncryptorDirect ==
    \/ DirectSelectFile
    \/ DirectTypePassword
    \/ DirectClickEncrypt
    \/ DirectRead
    \/ DirectDerived
    \/ DirectEncrypt
    \/ Calm /\ SetMode

SpecEncryptorDirect == Init /\ [][NextEncryptorDirect]_vars

\* The two Encryptors are two builds of components/Encryptor, and the files a
\* Decryptor session opens are made before it: a run uses one of the three
\* components, which App puts on and takes off the screen.
OnlyDecryptor == enc = EncInit /\ encDirect = EncDirectInit
OnlyEncryptor == last.op = "init" /\ pending = <<>> /\ encDirect = EncDirectInit
OnlyDirect == last.op = "init" /\ pending = <<>> /\ enc = EncInit

\* The three components, one in use at a time and the tabs clicked between
\* runs: Next cut down to the sessions of Only* and Calm, without the copy
\* button.  A handler run is the same code whichever session it is part of.
NextComponents ==
    \/ OnlyDecryptor /\ SetupKey
    \/ OnlyDecryptor /\ SetupFile
    \/ OnlyDecryptor /\ SetupKeyFile
    \/ OnlyDecryptor /\ SelectOpFile
    \/ OnlyDecryptor /\ SelectKeyFile
    \/ OnlyDecryptor /\ TypePassword
    \/ OnlyDecryptor /\ ClickDecrypt
    \/ OnlyDecryptor /\ DecryptRead
    \/ OnlyDecryptor /\ DecryptReadKey
    \/ OnlyDecryptor /\ DecryptUnwrap
    \/ OnlyDecryptor /\ DecryptOpen
    \/ OnlyEncryptor /\ EncSelectFile
    \/ OnlyEncryptor /\ EncTypePassword
    \/ OnlyEncryptor /\ ClickEncrypt
    \/ OnlyEncryptor /\ EncryptRead
    \/ OnlyEncryptor /\ EncryptGenerate
    \/ OnlyEncryptor /\ EncryptContent
    \/ OnlyEncryptor /\ EncryptExport
    \/ OnlyEncryptor /\ EncryptDerived
    \/ OnlyEncryptor /\ EncryptSealed
    \/ OnlyEncryptor /\ EncryptFinish
    \/ OnlyDirect /\ DirectSelectFile
    \/ OnlyDirect /\ DirectTypePassword
    \/ OnlyDirect /\ DirectClickEncrypt
    \/ OnlyDirect /\ DirectRead
    \/ OnlyDirect /\ DirectDerived
    \/ OnlyDirect /\ DirectEncrypt
    \/ Calm /\ SetMode

\* What the platform does for a running handler: a file read ends in a load or an
\* error event, a promise of crypto.subtle settles, a timer fires.
DecryptStep == DecryptRead \/ DecryptReadKey \/ DecryptUnwrap \/ DecryptOpen
EncryptStep ==
    \/ EncryptRead \/ EncryptGenerate \/ EncryptContent \/ EncryptExport
    \/ EncryptDerived \/ EncryptSealed \/ EncryptFinish
DirectStep == DirectRead \/ DirectDerived \/ DirectEncrypt

\* The components with a platform that never leaves a handler waiting for ever.
SpecComponents ==
    /\ Init /\ [][NextComponents]_vars
    /\ WF_vars(DecryptStep)
    /\ WF_vars(EncryptStep)
    /\ WF_vars(DirectStep)

\* The files of the session SpecDecryptorTabs follows: the service encrypts the
\* text "hi" and then exports its key under the password "pw" for the file
\* name "a.txt".
OneSession ==
    \A k \in 1..Len(pending') :
        /\ pending'[k].op = "encryptFile" => pending'[k].inData = <<104, 105>>
        /\ pending'[k].op = "exportEncryptedKey"
              => /\ pending'[k].inPw = <<112, 119>>
                 /\ pending'[k].inName = <<97, 46, 116, 120, 116>>

\* The key files the user of SpecDecryptorTabs has to pick from: the key file
\* the service wrote as f.key.json, the same as f.json, a file g.key.json
\* that holds "{", and cancelling the picker.
KeyFilesOffered ==
    { UiFile(name, <<>>, BlobOf(kf.text)) :
        name \in { <<102, 46, 107, 101, 121, 46, 106, 115, 111, 110>>,
                   <<102, 46, 106, 115, 111, 110>> },
        kf \in KeyFilesHeld }
    \cup { UiFile(<<103, 46, 107, 101, 121, 46, 106, 115, 111, 110>>, <<>>,
                  BlobOf(<<123>>)),
           NoFile }

\* The Decryptor under the tabs of App: a tab is clicked at any moment, also
\* while handleDecrypt runs, and the run of a Decryptor taken off the screen
\* goes on next to the Decryptor mounted after it.  The user picks the .op
\* file among OpFileChoices (f.op, f.op with a byte changed, f.txt) or cancels,
\* picks the key file among KeyFilesOffered, and types "pw", a high surrogate
\* alone or nothing, each whenever the input lets them.  The Encryptors stay
\* as mounted.
NextDecryptorTabs ==
    \/ SetupKey
    \/ SetupFile /\ OneSession
    \/ files # <<>> /\ SetupKeyFile /\ OneSession
    \/ SelectOpFile
    \/ SelectKeyFileFrom(KeyFilesOffered)
    \/ TypePassword
    \/ ClickDecrypt
    \/ DecryptRead
    \/ DecryptReadKey
    \/ DecryptUnwrap
    \/ DecryptOpen
    \/ SetMode
    \/ GoneDecryptor

SpecDecryptorTabs == Init /\ [][NextDecryptorTabs]_vars

\* What the user of SpecTabs selects and types: the text file "hi" and the
\* password "pw".
PicksTextFile(e) == e.file.some /\ e.file.data = <<104, 105>>
TypesPw(e) == e.password = <<112, 119>>

\* The moments at which the user of SpecTabs leaves the key-wrap Encryptor: while no
\* handleEncrypt runs, or while the run on screen waits for the last encryption of
\* exportEncryptedKey or for its 100 ms pause.  The password-direct Encryptor is
\* left at any moment.
LeavesEncryptor == enc.at \in {"idle", "sealing", "pausing"}

\* The two Encryptors under the tabs of App: a tab is clicked while
\* handleEncrypt runs, and the run of an Encryptor taken off the screen goes on
\* next to the runs of the Encryptor mounted after it.  This is Next cut down
\* to one file, one password and the moments of LeavesEncryptor; what it leaves
\* out runs the same handler code.
NextTabs ==
    \/ OnlyEncryptor /\ EncSelectFile /\ PicksTextFile(enc')
    \/ OnlyEncryptor /\ EncTypePassword /\ TypesPw(enc')
    \/ OnlyEncryptor /\ ClickEncrypt
    \/ OnlyEncryptor /\ EncryptRead
    \/ OnlyEncryptor /\ EncryptGenerate
    \/ OnlyEncryptor /\ EncryptContent
    \/ OnlyEncryptor /\ EncryptExport
    \/ OnlyEncryptor /\ EncryptDerived
    \/ OnlyEncryptor /\ EncryptSealed
    \/ OnlyEncryptor /\ EncryptFinish
    \/ OnlyDirect /\ DirectSelectFile /\ PicksTextFile(encDirect')
    \/ OnlyDirect /\ DirectTypePassword /\ TypesPw(encDirect')
    \/ OnlyDirect /\ DirectClickEncrypt
    \/ OnlyDirect /\ DirectRead
    \/ OnlyDirect /\ DirectDerived
    \/ OnlyDirect /\ DirectEncrypt
    \/ LeavesEncryptor /\ SetMode
    \/ GoneEncryptor
    \/ GoneEncryptorDirect

SpecTabs == Init /\ [][NextTabs]_vars

----------------------------------------------------------------------------
(* Properties *)

DirectError == "Decryption failed. Please check your password and file."
FileError == "File decryption failed. The key may be incorrect for this file."

\* The positions where two byte sequences of the same length differ
Differences(a, b) == { i \in 1..Len(a) : a[i] # b[i] }

\* C1: password-direct round trip.  Whenever decryptFile is given an envelope that
\* encryptFile(P, W) returned, and the password W, it resolves with exactly P;
\* P may be empty, and the salt and the IV are whatever that call drew.
C1_DirectRoundTrip ==
    \A d \in DirectsHeld :
        (last.op = "decryptFilePassword" /\ last.inData = d.env /\ last.inPw = d.pw)
            => (last.ok /\ last.out = d.pt)

\* decryptFile has returned "hi" from the envelope encryptFile made of it under
\* a password that is a high surrogate alone.
C1_Witness ==
    /\ last.op = "decryptFilePassword"
    /\ last.ok
    /\ last.out = <<104, 105>>
    /\ last.inPw = <<55357>>
    /\ \E d \in DirectsHeld : d.env = last.inData /\ d.pw = last.inPw

\* C2: key-wrap round trip.  importAndDecryptKey, given the key file that
\* exportEncryptedKey(K, W, ...) returned and the password W, resolves with the key
\* K, and decryptFile with the key it returned resolves with exactly P on the
\* envelope encryptFile(P, K); in the obfuscated and in the plain-JSON variant.
C2_KeyWrapRoundTrip ==
    \A kf \in KeyFilesHeld :
        /\ (/\ last.op = IF kf.variant = "json" THEN "importAndDecryptKeyJson"
                         ELSE "importAndDecryptKey"
            /\ last.inText = kf.text
            /\ last.inPw = kf.pw)
               => /\ last.ok
                  /\ last.key = kf.key
                  /\ \A f \in FilesHeld :
                        f.key = kf.key
                            => /\ decryptFile(f.env, last.key, sealed).ok
                               /\ decryptFile(f.env, last.key, sealed).out = f.pt
        /\ \A f \in FilesHeld :
              (/\ last.op = "decryptFile"
               /\ last.inData = f.env
               /\ last.inKey = kf.key
               /\ f.key = kf.key)
                  => (last.ok /\ last.out = f.pt)

\* importAndDecryptKey has returned, from an obfuscated key file and the password
\* it was exported with, the key that the envelope of "hi" was made with.
C2_Witness ==
    /\ last.op = "importAndDecryptKey"
    /\ last.ok
    /\ \E kf \in KeyFilesHeld :
          /\ kf.variant = "obfuscated"
          /\ kf.text = last.inText
          /\ kf.pw = last.inPw
    /\ \E f \in FilesHeld :
          /\ f.key = last.key
          /\ f.pt = <<104, 105>>
          /\ decryptFile(f.env, last.key, sealed).out = <<104, 105>>

\* C3: minimum-length rejection.  decryptFile, given an envelope shorter than the
\* header plus the 16-byte tag (44 bytes with a password, 28 bytes with a key),
\* rejects it as MalformedEnvelope before it derives a key or calls the cipher.
C3_MinimumLengthRejection ==
    /\ (last.op = "decryptFilePassword"
        /\ Len(last.inData) < SALT_LENGTH + IV_LENGTH + TAG_LENGTH)
           => (~last.ok /\ last.err = "MalformedEnvelope" /\ last.calls = <<>>)
    /\ (last.op = "decryptFile"
        /\ Len(last.inData) < FILE_ENCRYPTION_IV_LENGTH + TAG_LENGTH)
           => (~last.ok /\ last.err = "MalformedEnvelope" /\ last.calls = <<>>)

\* C4 as stated: wrong-password rejection.  decryptFile, given an envelope that
\* encryptFile(P, W1) returned and any password W2 other than W1, fails with the
\* decryption error and returns no plaintext.
C4_WrongPasswordRejection ==
    \A d \in DirectsHeld :
        (last.op = "decryptFilePassword" /\ last.inData = d.env /\ last.inPw # d.pw)
            => (~last.ok /\ last.err = DirectError /\ last.out = <<>>)

\* C4 as amended: decryptFile, given an envelope that encryptFile(P, W1) returned
\* and a password W2 that PBKDF2 keys differently from W1 (the UTF-8 encodings,
\* hashed when longer than 64 bytes and without their trailing zero bytes,
\* differ), fails with the decryption error and returns no plaintext.
C4_WrongKeyedPasswordRejection ==
    \A d \in DirectsHeld :
        (/\ last.op = "decryptFilePassword"
         /\ last.inData = d.env
         /\ HmacKey(TextEncode(last.inPw)) # HmacKey(TextEncode(d.pw)))
            => (~last.ok /\ last.err = DirectError /\ last.out = <<>>)

\* decryptFile has failed on an envelope made under "pw" when given U+1F600.
C4_Witness ==
    /\ last.op = "decryptFilePassword"
    /\ ~last.ok
    /\ last.inPw = <<55357, 56832>>
    /\ \E d \in DirectsHeld : d.env = last.inData /\ d.pw = <<112, 119>>

\* C5: tamper detection.  decryptFile, given an envelope that encryptFile returned
\* with the byte at one position changed (in the salt, the IV, the ciphertext or
\* the tag) and the password or key it was made with, fails with the decryption
\* error and returns no plaintext; in both modes.
C5_TamperDetection ==
    /\ \A d \in DirectsHeld :
          (/\ last.op = "decryptFilePassword"
           /\ last.inPw = d.pw
           /\ Len(last.inData) = Len(d.env)
           /\ Cardinality(Differences(last.inData, d.env)) = 1)
              => (~last.ok /\ last.err = DirectError /\ last.out = <<>>)
    /\ \A f \in FilesHeld :
          (/\ last.op = "decryptFile"
           /\ last.inKey = f.key
           /\ Len(last.inData) = Len(f.env)
           /\ Cardinality(Differences(last.inData, f.env)) = 1)
              => (~last.ok /\ last.err = FileError /\ last.out = <<>>)

\* decryptFile (key-wrap) has failed on the envelope of "hi" with its last tag
\* byte changed.
C5_Witness ==
    /\ last.op = "decryptFile"
    /\ ~last.ok
    /\ \E f \in FilesHeld :
          /\ f.pt = <<104, 105>>
          /\ f.key = last.inKey
          /\ Len(last.inData) = Len(f.env)
          /\ Differences(last.inData, f.env) = {Len(f.env)}

\* The text holds no key-file record: it is not base64 (obfuscated variant only),
\* or not JSON, or the record lacks one of the three fields.
NoRecord(json, fields) ==
    \/ ~json.ok
    \/ ~JsonParse(json.s).ok
    \/ JsonParse(json.s).v.t # "object"
    \/ \E name \in fields : Hits(JsonParse(json.s).v, name) = {}

\* C6: parse failure is a distinct error.  importAndDecryptKey, given text that
\* is not base64, not JSON, or a record without its salt, iv or key field, fails
\* with an error other than the key decryption error of a wrong password, before
\* it derives a key or calls the cipher; in the obfuscated and the plain variant.
C6_ParseFailureDistinct ==
    /\ (last.op = "importAndDecryptKey"
        /\ NoRecord(atob(last.inText), {<<115>>, <<105>>, <<107>>}))
           => (~last.ok /\ last.err # KeyError /\ last.calls = <<>>)
    /\ (last.op = "importAndDecryptKeyJson"
        /\ NoRecord([ok |-> TRUE, s |-> last.inText],
                    {<<115, 97, 108, 116>>, <<105, 118>>, <<107, 101, 121>>}))
           => (~last.ok /\ last.err # KeyError /\ last.calls = <<>>)

\* The key file kf as exportEncryptedKey would have written it without metadata
WithoutMetadata(kf) == btoa(Stringify(WithoutMember(RecordOf(kf), <<109>>), 0, 0).s).s

\* C7: metadata is optional.  importAndDecryptKey, given the correct password and
\* a key file with the salt, iv and key fields that exportEncryptedKey wrote but
\* no metadata field, resolves with the file key.
C7_MetadataOptional ==
    \A kf \in KeyFilesHeld :
        (/\ kf.variant = "obfuscated"
         /\ last.op = "importAndDecryptKey"
         /\ last.inText = WithoutMetadata(kf)
         /\ last.inPw = kf.pw)
            => (last.ok /\ last.key = kf.key)

\* C8: metadata round trip.  exportEncryptedKey(K, W, F) resolves for every
\* filename F, and importAndDecryptKey of what it returned, with W, resolves with
\* metadata whose filename is F and whose encryptedAt and encryptedBy are the
\* timestamp and the agent of the export.
C8_MetadataRoundTrip ==
    /\ last.op = "exportEncryptedKey" => last.ok
    /\ \A kf \in KeyFilesHeld :
          (/\ kf.variant = "obfuscated"
           /\ last.op = "importAndDecryptKey"
           /\ last.inText = kf.text
           /\ last.inPw = kf.pw)
              => (/\ last.ok
                  /\ last.meta = [filename |-> JStr(kf.name),
                                  encryptedAt |-> JNum(kf.at),
                                  encryptedBy |-> JStr(kf.by)])

\* C9: nonce uniqueness.  Every cipher encrypt call, of encryptFile (both modes)
\* and of exportEncryptedKey (both variants), uses the IV that its own draw from
\* the random source returned, no two calls use the same draw, and no two calls
\* use the same (key, IV) pair.
C9_NonceUniqueness ==
    /\ \A i \in 1..Len(encLog) :
          /\ encLog[i].draw \in 1..rng
          /\ encLog[i].iv = getRandomValues(Len(encLog[i].iv), encLog[i].draw)
    /\ \A i, j \in 1..Len(encLog) :
          i # j => /\ encLog[i].draw # encLog[j].draw
                   /\ <<encLog[i].key, encLog[i].iv>> # <<encLog[j].key, encLog[j].iv>>

\* One file key has encrypted two files, under two IVs.
C9_Witness ==
    \E i, j \in 1..Len(encLog) :
        /\ i # j
        /\ encLog[i].key = encLog[j].key
        /\ encLog[i].by = "encryptFile"
        /\ encLog[i].iv # encLog[j].iv

\* C10: non-determinism of ciphertext.  Two encryptFile calls with the same
\* plaintext and the same password return envelopes that differ, in their salts
\* and in their IVs, and decryptFile with that password returns that plaintext
\* from either of them.
C10_CiphertextNonDeterminism ==
    \A i, j \in 1..Len(directs) :
        (i # j /\ directs[i].pt = directs[j].pt /\ directs[i].pw = directs[j].pw)
            => /\ directs[i].env # directs[j].env
               /\ PwdSaltOf(directs[i].env) # PwdSaltOf(directs[j].env)
               /\ PwdIvOf(directs[i].env) # PwdIvOf(directs[j].env)
               /\ (last.op = "decryptFilePassword"
                   /\ last.inData \in {directs[i].env, directs[j].env}
                   /\ last.inPw = directs[i].pw)
                      => (last.ok /\ last.out = directs[i].pt)

\* "hi" was encrypted twice under "pw", and decryptFile has returned "hi" from
\* the second envelope.
C10_Witness ==
    /\ Len(directs) = 2
    /\ directs[1].pt = <<104, 105>> /\ directs[2].pt = <<104, 105>>
    /\ directs[1].pw = <<112, 119>> /\ directs[2].pw = <<112, 119>>
    /\ last.op = "decryptFilePassword"
    /\ last.inData = directs[2].env
    /\ last.inPw = <<112, 119>>
    /\ last.ok
    /\ last.out = <<104, 105>>

\* C11: password-direct envelope layout.  Every envelope encryptFile(P, W)
\* returned is 16 + 12 + |P| + 16 bytes long; bytes [0,16) are the salt its key
\* was derived with, bytes [16,28) the IV it was sealed with, and the rest is
\* what the cipher returned; decryptFile splits an envelope at those offsets.
C11_DirectLayout ==
    \A d \in DirectsHeld :
        /\ Len(d.env) = 16 + 12 + Len(d.pt) + 16
        /\ \E i \in 1..Len(encLog) :
              /\ encLog[i].by = "encryptFilePassword"
              /\ encLog[i].key = Pbkdf2(TextEncode(d.pw), SubSeq(d.env, 1, 16))
              /\ encLog[i].iv = SubSeq(d.env, 17, 28)
              /\ <<encLog[i].key, encLog[i].iv, SubSeq(d.env, 29, Len(d.env))>>
                    \in sealed
        /\ PwdSaltOf(d.env) = SubSeq(d.env, 1, 16)
        /\ PwdIvOf(d.env) = SubSeq(d.env, 17, 28)
        /\ PwdCiphertextOf(d.env) = SubSeq(d.env, 29, Len(d.env))

\* encryptFile has returned the 46-byte envelope of "hi".
C11_Witness ==
    /\ last.op = "encryptFilePassword"
    /\ last.inData = <<104, 105>>
    /\ Len(last.out) = 46
    /\ \E d \in DirectsHeld : d.env = last.out

\* C12: key-wrap envelope layout.  Every envelope encryptFile(P, K) returned is
\* 12 + |P| + 16 bytes long (no salt); bytes [0,12) are the IV it was sealed
\* with under K and the rest is what the cipher returned; decryptFile takes the
\* IV from bytes [0,12) and the rest as the ciphertext.
C12_FileLayout ==
    \A f \in FilesHeld :
        /\ Len(f.env) = 12 + Len(f.pt) + 16
        /\ \E i \in 1..Len(encLog) :
              /\ encLog[i].by = "encryptFile"
              /\ encLog[i].key = f.key
              /\ encLog[i].iv = SubSeq(f.env, 1, 12)
        /\ <<f.key, SubSeq(f.env, 1, 12), SubSeq(f.env, 13, Len(f.env))>> \in sealed
        /\ FileIvOf(f.env) = SubSeq(f.env, 1, 12)
        /\ FileCiphertextOf(f.env) = SubSeq(f.env, 13, Len(f.env))

\* encryptFile has returned the 30-byte envelope of "hi" under a generated key.
C12_Witness ==
    /\ last.op = "encryptFile"
    /\ last.inData = <<104, 105>>
    /\ Len(last.out) = 30
    /\ \E f \in FilesHeld : f.env = last.out /\ f.key = last.inKey

\* The names of the salt, iv and key fields in a key file of kf's variant
FieldNames(kf) ==
    IF kf.variant = "json"
    THEN [salt |-> <<115, 97, 108, 116>>, iv |-> <<105, 118>>, key |-> <<107, 101, 121>>]
    ELSE [salt |-> <<115>>, iv |-> <<105>>, key |-> <<107>>]

ImporterOf(kf) ==
    IF kf.variant = "json" THEN "importAndDecryptKeyJson" ELSE "importAndDecryptKey"

\* field is a string, and the base64 encoding of the n bytes it decodes to
EncodesBytes(field, n) ==
    /\ field.t = "string"
    /\ base64ToBuffer(field).ok
    /\ Len(base64ToBuffer(field).bytes) = n
    /\ bufferToBase64(base64ToBuffer(field).bytes) = field.s

\* The key file kf holds, in the fields salt, iv and key of its record: 16 bytes,
\* 12 bytes and 48 bytes; a cipher encrypt call of an export used the key derived
\* from kf's password and those 16 bytes, with those 12 bytes as its IV, and
\* returned those 48 bytes; and an import of kf's text succeeds exactly when the
\* key derived from its password and those 16 bytes is that key.
HoldsWrap(kf, salt, iv, key) ==
    /\ EncodesBytes(salt, 16)
    /\ EncodesBytes(iv, 12)
    /\ EncodesBytes(key, 48)
    /\ \E i \in 1..Len(encLog) :
          /\ encLog[i].by \in {"exportEncryptedKey", "exportEncryptedKeyJson"}
          /\ encLog[i].key = Pbkdf2(TextEncode(kf.pw), base64ToBuffer(salt).bytes)
          /\ encLog[i].iv = base64ToBuffer(iv).bytes
          /\ <<encLog[i].key, encLog[i].iv, base64ToBuffer(key).bytes>> \in sealed
    /\ (last.op = ImporterOf(kf) /\ last.inText = kf.text)
          => (last.ok <=> Pbkdf2(TextEncode(last.inPw), base64ToBuffer(salt).bytes)
                            = Pbkdf2(TextEncode(kf.pw), base64ToBuffer(salt).bytes))

FieldsHoldWrap(kf, record, names) ==
    HoldsWrap(kf, GetProp(record, names.salt).v, GetProp(record, names.iv).v,
              GetProp(record, names.key).v)

\* The call that settled last returned the key file kf, or was an import of its
\* text.
Concerns(kf) ==
    \/ /\ last.op \in {"exportEncryptedKey", "exportEncryptedKeyJson"}
       /\ last.ok
       /\ last.text = kf.text
    \/ last.op = ImporterOf(kf) /\ last.inText = kf.text

\* C13: key envelope contents.  Every key file exportEncryptedKey returns (in
\* either variant) decodes to a record whose salt field is the base64 of the 16
\* bytes the wrapping key was derived with, whose iv field is the base64 of the
\* 12-byte IV the file key was sealed with, and whose key field is the base64 of
\* the 48 bytes the cipher returned; importAndDecryptKey derives the wrapping key
\* from that stored salt.  A key file never changes and no cipher call is
\* forgotten, so it is looked at when it is returned and when it is imported.
C13_KeyEnvelopeContents ==
    \A kf \in KeyFilesHeld :
        Concerns(kf) => FieldsHoldWrap(kf, RecordOf(kf), FieldNames(kf))

\* importAndDecryptKey (plain JSON) has returned the key of a key file from its
\* text and its password, a high surrogate alone.
C13_Witness ==
    /\ last.op = "importAndDecryptKeyJson"
    /\ last.ok
    /\ last.inPw = <<55357>>
    /\ \E kf \in KeyFilesHeld :
          kf.variant = "json" /\ kf.text = last.inText /\ kf.key = last.key

\* The errors of the failing calls of decryptFile(d.env, w) over the produced
\* envelopes and every password, wrong ones among them
WrongPasswordErrors ==
    { decryptFilePassword(d.env, w, sealed).err : d \in DirectsHeld, w \in Passwords }
    \ {""}

\* The same for decryptFile(f.env, k) over every generated key
WrongKeyErrors ==
    { decryptFile(f.env, k, sealed).err : f \in FilesHeld, k \in KeysHeld } \ {""}

\* The same for the import of every key file with every password: what lines
\* 177-204 give for what line 175 read from the key file
WrongKeyPasswordErrors ==
    { ImportKeyData(keyData, w, sealed).err :
        keyData \in { ParseDecoded(atob(kf.text)) :
                        kf \in { k \in KeyFilesHeld : k.variant = "obfuscated" } },
        w \in Passwords }
    \ {""}

\* C14: undifferentiated authentication failure.  For each decrypt operation
\* (password-direct decryptFile, key-wrap decryptFile, importAndDecryptKey),
\* the error of a failing call, whatever was done to its
\* input (tampered with, cut short, broken), is the error that the operation
\* gives for a wrong password or key.
C14_UndifferentiatedFailure ==
    /\ (last.op = "decryptFilePassword" /\ ~last.ok)
          => \A e \in WrongPasswordErrors : e = last.err
    /\ (last.op = "decryptFile" /\ ~last.ok)
          => \A e \in WrongKeyErrors : e = last.err
    /\ (last.op = "importAndDecryptKey" /\ ~last.ok)
          => \A e \in WrongKeyPasswordErrors : e = last.err

\* importAndDecryptKey has failed, with the right password, on a key file whose
\* sealed key was tampered with, and a wrong password fails on the key file
\* as it was exported.
C14_Witness ==
    /\ last.op = "importAndDecryptKey"
    /\ ~last.ok
    /\ WrongKeyPasswordErrors # {}
    /\ \E kf \in KeyFilesHeld :
          /\ kf.variant = "obfuscated"
          /\ last.inPw = kf.pw
          /\ last.inText = btoa(Stringify(TamperedKey(RecordOf(kf)), 0, 0).s).s

\* C15 as stated: wrong-password rejection of the key unwrap.  importAndDecryptKey
\* (either variant), given a key file that exportEncryptedKey(K, W1, ...) returned
\* and any password W2 other than W1, fails with the key decryption error and
\* returns neither a key nor metadata.
C15_WrongPasswordUnwrap ==
    \A kf \in KeyFilesHeld :
        (last.op = ImporterOf(kf) /\ last.inText = kf.text /\ last.inPw # kf.pw)
            => (/\ ~last.ok
                /\ last.err = KeyError
                /\ last.key = NoKey
                /\ last.meta = NoMeta)

\* C15 as amended: the same for every password W2 that PBKDF2 keys differently
\* from W1 (the UTF-8 encodings, hashed when longer than 64 bytes and without
\* their trailing zero bytes, differ).
C15_WrongKeyedPasswordUnwrap ==
    \A kf \in KeyFilesHeld :
        (/\ last.op = ImporterOf(kf)
         /\ last.inText = kf.text
         /\ HmacKey(TextEncode(last.inPw)) # HmacKey(TextEncode(kf.pw)))
            => (/\ ~last.ok
                /\ last.err = KeyError
                /\ last.key = NoKey
                /\ last.meta = NoMeta)

\* importAndDecryptKey has failed on an obfuscated key file exported under "pw"
\* when given U+1F600.
C15_Witness ==
    /\ last.op = "importAndDecryptKey"
    /\ ~last.ok
    /\ last.inPw = <<55357, 56832>>
    /\ \E kf \in KeyFilesHeld :
          kf.variant = "obfuscated" /\ kf.text = last.inText /\ kf.pw = <<112, 119>>

----------------------------------------------------------------------------
(* The components *)

\* Whether the await the running handleDecrypt stands at is a service call that
\* rejects: the key unwrap of line 74 or the file decryption of line 75.
UnwrapFails ==
    /\ dec.at = "importing"
    /\ ~importAndDecryptKey(dec.run.keyFileContent, dec.run.password, sealed).ok
OpenFails ==
    /\ dec.at = "decrypting"
    /\ ~decryptFile(dec.run.opFileContent, dec.run.fileKey, sealed).ok

\* The Decryptor holds nothing decrypted.
NothingHeld ==
    /\ ~dec.decryptedContent.some
    /\ ~dec.decryptionInfo.some
    /\ dec.decryptedText = <<>>

\* C16: when the key unwrap or the file decryption of a handleDecrypt run fails,
\* the run ends holding no decrypted content, no decrypted text and no decryption
\* info, with nothing loading, and with an error status in the Decryptor that
\* is on screen.
C16_FailClosed ==
    [][ ((UnwrapFails \/ OpenFails) /\ dec'.at # dec.at)
            => /\ NothingHeld'
               /\ mode' = mode => dec'.status.type = "error"
               /\ dec'.at = "idle" /\ ~dec'.isLoading ]_vars

\* A run in which the key file opened and the file decryption failed has ended.
C16_Witness ==
    /\ dec.at = "idle"
    /\ dec.status = Status("error", FileError)
    /\ NothingHeld
    /\ dec.opFile.some /\ dec.keyFile.some

\* The calls of the Encryptor's run r that resolved, by operation.
Resolved(r, op) ==
    { i \in 1..Len(enc.calls) :
        enc.calls[i].run = r /\ enc.calls[i].op = op /\ enc.calls[i].ok }

\* The downloads the Encryptor's run r triggered.
DownloadsOf(r) == { k \in 1..Len(downloads) : downloads[k].run = r }

\* Every download was triggered by a run whose three service calls resolved, and
\* a run with a rejected call triggered none.
ArtifactsWhole ==
    /\ \A k \in 1..Len(downloads) :
          /\ Resolved(downloads[k].run, "generateFileKey") # {}
          /\ Resolved(downloads[k].run, "encryptFile") # {}
          /\ Resolved(downloads[k].run, "exportEncryptedKey") # {}
    /\ \A i \in 1..Len(enc.calls) :
          ~enc.calls[i].ok => DownloadsOf(enc.calls[i].run) = {}

\* C18: the key-wrap Encryptor (the build in which no password-direct
\* Encryptor runs) triggers no download unless generateFileKey,
\* encryptFile and exportEncryptedKey all succeeded in that run; when one of them
\* fails the run has emitted nothing, emits nothing, and ends, with the status
\* "Encryption failed. Please try again." when its Encryptor is on screen (a
\* step of a run off the screen is one that changes `gone`).
C18_AtomicArtifacts ==
    [][ /\ encDirect'.runs = 0 => ArtifactsWhole'
        /\ (Len(enc'.calls) > Len(enc.calls) /\ ~enc'.calls[Len(enc'.calls)].ok)
              => /\ downloads' = downloads
                 /\ gone' = gone
                       => /\ enc'.status = Status("error",
                                                  "Encryption failed. Please try again.")
                          /\ enc'.at = "idle"
                 /\ gone' # gone => Len(gone') < Len(gone) ]_vars

\* The second run had a service call rejected and has ended on screen with the
\* encryption error and no download, while the first run, whose three calls
\* resolved, is off the screen between its two downloads.
C18_Witness ==
    /\ enc.calls # <<>>
    /\ ~enc.calls[Len(enc.calls)].ok /\ enc.calls[Len(enc.calls)].run = 2
    /\ DownloadsOf(2) = {}
    /\ enc.status = Status("error", "Encryption failed. Please try again.")
    /\ enc.at = "idle"
    /\ Cardinality(DownloadsOf(1)) = 1
    /\ \E i \in GoneOf("Encryptor") : gone[i].st.at = "pausing"

\* C19: every run of the key-wrap handleEncrypt generates at most one file key,
\* and exactly one if it went on to encrypt; its encryptFile and
\* exportEncryptedKey calls are given that key; no two runs have the same key, so
\* no key is used by two encryptFile calls, two runs in flight at once hold
\* different keys, and no key is held once the run is over.
C19_OneFreshKeyPerRun ==
    /\ \A r \in 1..enc.runs : Cardinality(Resolved(r, "generateFileKey")) <= 1
    /\ \A i \in 1..Len(enc.calls) :
          enc.calls[i].op \in {"encryptFile", "exportEncryptedKey"}
              => /\ Cardinality(Resolved(enc.calls[i].run, "generateFileKey")) = 1
                 /\ \E j \in Resolved(enc.calls[i].run, "generateFileKey") :
                       j < i /\ enc.calls[j].key = enc.calls[i].key
    /\ \A i, j \in 1..Len(enc.calls) :
          (i # j /\ enc.calls[i].op = enc.calls[j].op /\ enc.calls[i].ok
                 /\ enc.calls[j].ok)
              => enc.calls[i].key # enc.calls[j].key
    /\ \A i \in GoneOf("Encryptor") :
          gone[i].st.run.fileKey # NoKey => gone[i].st.run.fileKey # enc.run.fileKey
    /\ enc.at = "idle" => enc.run.fileKey = NoKey

\* Two runs have each generated a key, encrypted with it and exported it, and
\* were in flight at once: the second did its last call before the first.
C19_Witness ==
    /\ enc.runs = 2
    /\ \A r \in 1..2 : /\ Resolved(r, "generateFileKey") # {}
                       /\ Resolved(r, "encryptFile") # {}
                       /\ Resolved(r, "exportEncryptedKey") # {}
    /\ enc.calls[Len(enc.calls)].run = 1
    /\ enc.at = "idle" /\ gone = <<>>

\* The Decryptor holds decrypted content or decryption info.
OutputHeld == dec.decryptedContent.some \/ dec.decryptionInfo.some

\* C20: whenever the Decryptor holds decrypted content or decryption info, an .op
\* file and a key file are selected and they are the files the content was
\* decrypted from; and every file-selection event, accepted or rejected, leaves
\* nothing decrypted behind.
C20_NeverStale ==
    [][ /\ OutputHeld' => /\ dec'.opFile.some /\ dec'.keyFile.some
                          /\ dec'.shownFrom = <<dec'.opFile, dec'.keyFile>>
        /\ (SelectOpFile \/ SelectKeyFile) => NothingHeld' ]_vars

\* C21: every handleDecrypt and handleEncrypt run that set isLoading to true sets
\* it back to false, whether it ends in success, in a crypto failure or in a
\* file-read failure.
C21_LoadingEnds ==
    /\ dec.isLoading ~> ~dec.isLoading
    /\ enc.isLoading ~> ~enc.isLoading
    /\ encDirect.isLoading ~> ~encDirect.isLoading

\* A handleDecrypt run whose file read failed is over and nothing is loading.
C21_Witness ==
    /\ dec.status = Status("error", "NotReadableError")
    /\ dec.at = "idle"
    /\ ~dec.isLoading

\* C22: whenever a handleEncrypt run of either Encryptor ends (isLoading goes
\* from true to false), the password state is the empty string, whether the run
\* ended in success, in an encryption error or in a file-read error.
C22_PasswordCleared ==
    [][ /\ (enc.isLoading /\ ~enc'.isLoading) => enc'.password = <<>>
        /\ (encDirect.isLoading /\ ~encDirect'.isLoading)
              => encDirect'.password = <<>> ]_vars

\* The handleDecrypt runs in flight, on the screen and off it.
RunsInFlight ==
    (IF dec.at # "idle" THEN 1 ELSE 0)
    + Cardinality({ i \in GoneOf("Decryptor") : gone[i].st.at # "idle" })

\* C23 as the spec states it: at most one handleDecrypt run is in flight, and
\* while one is, no step changes the selected files or the password.
C23_OneInFlight ==
    [][ /\ RunsInFlight' <= 1
        /\ dec.isLoading
              => /\ dec'.opFile = dec.opFile
                 /\ dec'.keyFile = dec.keyFile
                 /\ dec'.password = dec.password ]_vars

\* C23, amended: a handleDecrypt run of the Decryptor on screen is in flight
\* exactly while isLoading is true, and while one is in flight no step but a
\* change of App's mode starts another run or changes the selected files or
\* the password; a step of a run off the screen changes nothing of the
\* Decryptor on screen; so the content a run stores was decrypted from the
\* files, with the password, that are on screen.
C23_OneInFlightOnScreen ==
    [][ /\ dec'.isLoading <=> dec'.at # "idle"
        /\ (dec.isLoading /\ mode' = mode)
              => /\ dec'.at = "reading" => dec.at = "reading"
                 /\ dec'.opFile = dec.opFile
                 /\ dec'.keyFile = dec.keyFile
                 /\ dec'.password = dec.password
        /\ (gone' # gone /\ mode' = mode) => dec' = dec
        /\ (dec'.decryptedContent.some /\ ~dec.decryptedContent.some)
              => /\ dec.isLoading
                 /\ dec'.shownFrom = <<dec'.opFile, dec'.keyFile>>
                 /\ dec.run.opFile = dec'.opFile /\ dec.run.keyFile = dec'.keyFile
                 /\ dec.run.password = dec'.password ]_vars

\* A run of the Decryptor on screen has unwrapped the key and is waiting for the
\* file decryption of the files on screen, while a run started with another
\* .op file and another password in a Decryptor since taken off the screen is
\* still in flight.
C23_Witness ==
    /\ dec.isLoading
    /\ dec.at = "decrypting"
    /\ dec.run.opFile = dec.opFile /\ dec.run.keyFile = dec.keyFile
    /\ dec.run.password = dec.password
    /\ \E i \in GoneOf("Decryptor") :
          /\ gone[i].st.at # "idle"
          /\ gone[i].st.run.opFile # dec.opFile
          /\ gone[i].st.run.password # dec.password

\* C24: whenever the Decryptor's status is a success, decrypted content and
\* decryption info are both held; and handleDecrypt called with a file missing
\* or the password empty leaves an error status and starts no run, so it
\* reaches no crypto-service call.
C24_SuccessHasOutput ==
    /\ dec.status.type = "success"
          => dec.decryptedContent.some /\ dec.decryptionInfo.some
    /\ (~dec.opFile.some \/ ~dec.keyFile.some \/ dec.password = <<>>)
          => /\ handleDecrypt(dec).status.type = "error"
             /\ handleDecrypt(dec).at = "idle"
             /\ handleDecrypt(dec).run = NoRun
             /\ ~handleDecrypt(dec).isLoading

\* A decryption succeeded and the password box was emptied afterwards.
C24_Witness ==
    /\ dec.status.type = "success"
    /\ dec.decryptedContent.some /\ dec.decryptionInfo.some
    /\ dec.opFile.some /\ dec.keyFile.some /\ dec.password = <<>>
    /\ handleDecrypt(dec).status.type = "error"

\* C25: once a handleCopy call has set isCopied, it falls back to false only
\* when the timeout of that same call fires or when a file selection or a new
\* decrypt resets it; the timeout of an earlier call never clears it.
C25_OwnTimerOnly ==
    [][ (dec.isCopied /\ ~dec'.isCopied)
           => \/ dec'.timers = dec.timers
              \/ Head(dec.timers) = dec.copiedBy ]_vars

\* The key files one of the two exports wrote
ExportsOf(variant) == { kf \in KeyFilesHeld : kf.variant = variant }

\* C26: the two key-file formats are not interchangeable.  Every key file the
\* plain-JSON export wrote starts with "{", and the obfuscated importAndDecryptKey
\* given one fails with the key decryption error and returns no key, whatever
\* the password; the plain-JSON importAndDecryptKey given a key file the
\* obfuscated export wrote fails the same way.
C26_NotInterchangeable ==
    /\ \A kf \in ExportsOf("json") : Head(kf.text) = 123
    /\ (/\ last.op = "importAndDecryptKey"
        /\ \E kf \in ExportsOf("json") : kf.text = last.inText)
          => ~last.ok /\ last.err = KeyError /\ last.key = NoKey
    /\ (/\ last.op = "importAndDecryptKeyJson"
        /\ \E kf \in ExportsOf("obfuscated") : kf.text = last.inText)
          => ~last.ok /\ last.err = KeyError /\ last.key = NoKey

\* The obfuscated import was given a plain-JSON key file and its own password.
C26_Witness ==
    /\ last.op = "importAndDecryptKey"
    /\ \E kf \in ExportsOf("json") : kf.text = last.inText /\ kf.pw = last.inPw
    /\ ~last.ok

====
